---------------------------- MODULE Spec2Model ----------------------------
(***************************************************************************)
(* Model of the VoxelEngine entity simulation (src/unnamed/part_001) and   *)
(* of the App handlers that drive it (src/App.tsx).                        *)
(*                                                                         *)
(* Numbers are fixed point with two decimals: 100 stands for 1.0, so hp,   *)
(* damage, stagger points, distances and positions are in hundredths and   *)
(* times are in hundredths of a second.  Positions are the coordinate of   *)
(* an entity along the x axis of the world; the terrain height (getHeight, *)
(* a sum of sines) is taken as 0 everywhere, so the distance of two        *)
(* entities is the absolute difference of their coordinates.  A loot item *)
(* also has a height above that ground, which its float animation moves.   *)
(*                                                                         *)
(* Each action is one handler run to completion.  The awaits and the       *)
(* setTimeout at the end of initWorld/generateEntities and of createHero   *)
(* are folded into the handler: between them only animation frames run,    *)
(* and those run the same before and after the change of gameState.        *)
(***************************************************************************)
EXTENDS Integers, Sequences, FiniteSets, TLC

VARIABLES
    gameState,        \* App: gameState
    engine,           \* App: engineRef.current is set
    player,           \* App: id of the hero object held in `player`, or NoPlayer
    world,            \* App: the WorldData held in `world`, or NoWorld
    save,             \* localStorage item 'gemini_chronicles_save'
    clock,            \* VoxelEngine.clock.elapsedTime
    entities,         \* VoxelEngine.entities: id -> GameEntity
    order,            \* insertion order of the keys of VoxelEngine.entities
    playerEntity,     \* id of VoxelEngine.playerEntity, or NoPlayer
    lootEntities,     \* VoxelEngine.lootEntities, in insertion order
    inputDirection,   \* VoxelEngine.inputDirection (x component)
    playerVelocity,   \* VoxelEngine.playerVelocity (x component)
    events,           \* the frames, skill casts, key events, save and load requests so far
    lastOp            \* what the last handler did (observation only)

vars == <<gameState, engine, player, world, save, clock, entities, order,
          playerEntity, lootEntities, inputDirection, playerVelocity, events, lastOp>>

-----------------------------------------------------------------------------
\* Bounds of the model

\* frames, skill casts, key events, save and load requests of a run
MaxEvents == 5

\* the share of that budget a load request takes once it has a save to
\* apply: the reload of a world stands for several events of a run
LoadEvents == 3

\* the share a save request takes
SaveEvents == 2

-----------------------------------------------------------------------------
\* Program constants (hundredths)

StunDuration == 200

StaggerDecayRate == 15

MinDamage == 100

AttackCooldown == 150

FleeRange == 2000

ChaseRange == 4500

AttackRange == 1000

MeleeRange == 600

PatrolRadius == 2500

PatrolArrive == 150

PickupRange == 400

LootRaise == 200

BuffDuration == 3000

MaxDelta == 10

DefaultSpeed == 800

HeroSpeed == 1200

HeroDefense == 1000

EntitySpeed == 1000

NoPlayer == "none"

NoTarget == <<>>

\* spawnPosition of an entity that has none yet
NoPosition == -100000

LOOT_ITEMS ==
    << [name |-> "Ancient Vitality", type |-> "health",   subType |-> "none",    value |-> 4000],
       [name |-> "Essence of Might", type |-> "buff",     subType |-> "power",   value |-> 1000],
       [name |-> "Vortex Shard",     type |-> "buff",     subType |-> "speed",   value |-> 800],
       [name |-> "Ironwill Core",    type |-> "buff",     subType |-> "defense", value |-> 1500],
       [name |-> "Stardust Scrap",   type |-> "material", subType |-> "none",    value |-> 100] >>

-----------------------------------------------------------------------------
\* Inputs the environment supplies

\* Stat blocks the content generator returns, with the place
\* generateEntities draws for the entity (chunk.x * 40 +- 5).
Warrior(x) == [type |-> "enemy", hp |-> 10000, power |-> 1000, defense |-> 2000,
               class |-> "Warrior", isRanged |-> FALSE, x |-> x, voxels |-> TRUE]

Mage(x) == [type |-> "enemy", hp |-> 2000, power |-> 10000, defense |-> 0,
            class |-> "Fire Mage", isRanged |-> FALSE, x |-> x, voxels |-> TRUE]

Slinger(x) == [type |-> "enemy", hp |-> 10000, power |-> 1000, defense |-> 4500,
               class |-> "Slinger", isRanged |-> TRUE, x |-> x, voxels |-> TRUE]

Villager(x) == [type |-> "npc", hp |-> 2000, power |-> 0, defense |-> 0,
                class |-> "Villager", isRanged |-> FALSE, x |-> x, voxels |-> TRUE]

\* a descriptor the generator returns without its voxels
Malformed(x) == [Warrior(x) EXCEPT !.voxels = FALSE]

\* The batches of descriptors the generator may answer with.
EntityBatches ==
    { << Mage(300), Warrior(300) >>,
      << Mage(347), Warrior(400) >>,
      << Warrior(1000), Mage(4500) >>,
      << Villager(300), Mage(2000) >>,
      << Slinger(700), Warrior(800) >>,
      << Malformed(300), Warrior(300) >> }

\* Ids Math.random().toString() hands out to the entities of a batch.
EntityIds == <<"e1", "e2">>

\* Hit points the generator gives the hero.
HeroHps == {500, 10000}

\* skills of the hero: (type, damage)
HeroSkills ==
    << [type |-> "basic", damage |-> 1000],
       [type |-> "ultimate", damage |-> 4000] >>

\* What the keys make of the x component of the input direction.
InputDirections == {0, 1}

\* Real time between two animation frames.
FrameTimes == {5, 180}

\* Real time between two animation frames when the page was hidden in
\* between: the browser holds the frames back, the clock runs on.
PauseTimes == {2990, 3010}

\* Real time between the last clock reading and a key or button handler.
HandlerLags == {5}

\* Math.random() < 0.6 and the catalog index drawn in spawnLoot: 0 is no drop.
DropRolls == 0..Len(LOOT_ITEMS)

\* The draws of one patrol decision: a new target at an offset from the spawn
\* position (Math.random() < 0.7), or a wait of 2 + Math.random() * 3 seconds.
PatrolRolls ==
    { [pick |-> TRUE, offset |-> 100, wait |-> 0],
      [pick |-> TRUE, offset |-> 2480, wait |-> 0],
      [pick |-> FALSE, offset |-> 0, wait |-> 250] }

NoWorld == "none"

\* The id loadGame gives the hero: 'player_loaded_' + Date.now()
LoadedId == "player_loaded"

-----------------------------------------------------------------------------
\* Arithmetic

Max(a, b) == IF a >= b THEN a ELSE b

Min(a, b) == IF a <= b THEN a ELSE b

Abs(a) == IF a >= 0 THEN a ELSE -a

Sign(a) == IF a > 0 THEN 1 ELSE IF a < 0 THEN -1 ELSE 0

\* a * b / 100, rounded toward zero: the product of two fixed-point numbers
Mul(a, b) == Sign(a * b) * (Abs(a * b) \div 100)

\* Vector3.distanceTo for two entities on flat ground
distanceTo(a, b) == Abs(a - b)

\* class.toLowerCase().includes('mage') || class.toLowerCase().includes('archer')
LowerIncludesMageOrArcher(class) == class \in {"Fire Mage", "ARCHER"}

-----------------------------------------------------------------------------
\* The registry and the flow of the App

getAllEntities == [i \in 1..Len(order) |-> entities[order[i]]]

NoOp == [op |-> "init", now |-> 0, delta |-> 0, target |-> "none", amount |-> 0,
         staggered |-> {}, modes |-> <<>>, hits |-> <<>>, resolved |-> {},
         collected |-> <<>>, expired |-> <<>>, result |-> "none", batch |-> <<>>]

\* The GameEntity the App builds for a descriptor, which has no
\* spawnPosition and no mesh yet (spawnEntity sets them; the model keeps
\* mesh TRUE here).
NewEntity(type, pos, hp, speed, power, defense, class, isRanged, heroSkills) ==
    [ type |-> type, position |-> pos, spawnPosition |-> NoPosition,
      patrolTarget |-> NoTarget, waitTimer |-> 0, lastAttackTime |-> 0,
      hp |-> hp, maxHp |-> hp, speed |-> speed, power |-> power,
      defense |-> defense, class |-> class, isRanged |-> isRanged,
      skills |-> heroSkills, buffs |-> <<>>,
      staggerPoints |-> 0, staggerEndTime |-> 0,
      isDead |-> FALSE, mesh |-> TRUE ]

\* JSON.stringify of an entity as saveGame prepares it: the mesh is dropped,
\* the vectors are written as plain coordinates.
toSaved(e) == [e EXCEPT !.mesh = FALSE]

\* the entries saveGame writes for a registry: every entity that is not of
\* type 'player', in registry order
RECURSIVE savedEntities(_, _, _)
savedEntities(ents, ord, i) ==
    IF i > Len(ord) THEN <<>>
    ELSE LET rest == savedEntities(ents, ord, i + 1)
         IN IF ents[ord[i]].type = "player" THEN rest
            ELSE <<[id |-> ord[i], data |-> toSaved(ents[ord[i]])]>> \o rest

\* The item saveGame stores. `broken` is the place of the first entry of
\* `entities` that spawnEntity cannot build (an entry without voxels), 0 if
\* every entry is sound.
SaveData(w, hero, ents, broken) ==
    [kind |-> "data", world |-> w, player |-> toSaved(hero), entities |-> ents,
     broken |-> broken]

\* A save of an earlier session: the hero at the origin and, far away, a
\* patrolling mage in the middle of a wait, then a warrior next to the hero.
SavedHero ==
    [NewEntity("player", 0, 10000, HeroSpeed, 1000, HeroDefense,
               "Hero", FALSE, HeroSkills) EXCEPT !.spawnPosition = 0]

SavedMage ==
    [NewEntity("enemy", 6000, 2000, EntitySpeed, 10000, 0, "Fire Mage", FALSE, <<>>)
        EXCEPT !.waitTimer = 5, !.patrolTarget = <<6100>>, !.spawnPosition = 5000]

SavedWarrior ==
    [NewEntity("enemy", 300, 10000, EntitySpeed, 1000, 2000, "Warrior", FALSE, <<>>)
        EXCEPT !.spawnPosition = 300]

SavedEntries == << [id |-> "s1", data |-> toSaved(SavedMage)],
                   [id |-> "s2", data |-> toSaved(SavedWarrior)] >>

\* What the browser's localStorage holds under the save key when the app
\* starts: nothing, text that does not parse, a sound save, or a save whose
\* second entity entry cannot be built.
InitialSaves ==
    { [kind |-> "none"], [kind |-> "corrupt"],
      SaveData("old realm", SavedHero, SavedEntries, 0),
      SaveData("old realm", SavedHero, SavedEntries, 2) }

Init ==
    /\ gameState = "WIZARD"
    /\ engine = FALSE
    /\ player = NoPlayer
    /\ world = NoWorld
    /\ save \in InitialSaves
    /\ clock = 0
    /\ entities = <<>>
    /\ order = <<>>
    /\ playerEntity = NoPlayer
    /\ lootEntities = <<>>
    /\ inputDirection = 0
    /\ playerVelocity = 0
    /\ events = 0
    /\ lastOp = NoOp

\* a spawnEntity that always takes the position as the spawnPosition
spawnEntity_resetSpawn(reg, id, data) ==
    [ ents |-> [k \in DOMAIN reg.ents \cup {id} |->
                   IF k = id
                     THEN [data EXCEPT !.mesh = TRUE, !.spawnPosition = data.position]
                     ELSE reg.ents[k]],
      order |-> IF id \in DOMAIN reg.ents THEN reg.order ELSE Append(reg.order, id),
      playerEntity |-> IF data.type = "player" THEN id ELSE reg.playerEntity ]

\* VoxelEngine.spawnEntity on the registry reg = [ents, order, playerEntity]:
\* spawnPosition becomes a copy of position when there is none, and Map.set
\* keeps the place of a key already present.
spawnEntity(reg, id, data) ==
    [ ents |-> [k \in DOMAIN reg.ents \cup {id} |->
                   IF k = id
                     THEN [data EXCEPT !.mesh = TRUE,
                                       !.spawnPosition =
                                           IF @ = NoPosition THEN data.position ELSE @]
                     ELSE reg.ents[k]],
      order |-> IF id \in DOMAIN reg.ents THEN reg.order ELSE Append(reg.order, id),
      playerEntity |-> IF data.type = "player" THEN id ELSE reg.playerEntity ]

\* The forEach of App.generateEntities over the batch, from place i on:
\* ent.voxels.map throws on a descriptor without voxels, and the catch block
\* of generateEntities goes on to the hero prompt.
RECURSIVE spawnBatch(_, _, _, _)
spawnBatch(reg, batch, ids, i) ==
    IF i > Len(batch) THEN reg
    ELSE IF ~batch[i].voxels THEN reg
    ELSE LET d == batch[i]
         IN spawnBatch(spawnEntity(reg, ids[i],
                           NewEntity(d.type, d.x, d.hp, EntitySpeed, d.power,
                                     d.defense, d.class, d.isRanged, <<>>)),
                       batch, ids, i + 1)

\* App.initWorld and generateEntities, from the wizard: every spawnEntity
\* goes through engineRef.current?. and is dropped while there is no engine.
\* The effect that follows the change of gameState creates the engine.
InitWorld ==
    /\ gameState = "WIZARD"
    /\ engine => \A i \in 1..Len(EntityIds) : EntityIds[i] \notin DOMAIN entities
    /\ \E batch \in EntityBatches :
        LET reg == spawnBatch([ents |-> entities, order |-> order,
                               playerEntity |-> playerEntity],
                              batch, EntityIds, 1)
        IN /\ entities' = IF engine THEN reg.ents ELSE entities
           /\ order' = IF engine THEN reg.order ELSE order
           /\ playerEntity' = IF engine THEN reg.playerEntity ELSE playerEntity
           /\ lastOp' = [NoOp EXCEPT !.op = "initWorld", !.now = clock,
                                     !.batch = batch]
    /\ gameState' = "CHARACTER_GEN"
    /\ engine' = TRUE
    /\ world' = "realm"
    /\ UNCHANGED <<player, save, clock, lootEntities, inputDirection, playerVelocity,
                   events>>

\* App.createHero, from the prompt modal: the hero is spawned under the id
\* 'player' at the origin.
CreateHero ==
    /\ gameState = "CHARACTER_GEN"
    /\ \E hp \in HeroHps :
        LET hero == NewEntity("player", 0, hp, HeroSpeed, 1000, HeroDefense,
                              "Hero", FALSE, HeroSkills)
            reg == spawnEntity([ents |-> entities, order |-> order,
                                playerEntity |-> playerEntity], "player", hero)
        IN /\ entities' = IF engine THEN reg.ents ELSE entities
           /\ order' = IF engine THEN reg.order ELSE order
           /\ playerEntity' = IF engine THEN reg.playerEntity ELSE playerEntity
    /\ player' = "player"
    /\ gameState' = "PLAYING"
    /\ lastOp' = [NoOp EXCEPT !.op = "createHero", !.target = "player", !.now = clock]
    /\ UNCHANGED <<engine, world, save, clock, lootEntities, inputDirection,
                   playerVelocity, events>>

\* The hero object the App holds in `player`: the registry's entity, or, when
\* the save was loaded before there was an engine, the hero read from the save.
heroData == IF player \in DOMAIN entities THEN entities[player] ELSE save.player

\* App.saveGame, from the HUD.
SaveGame ==
    /\ events + SaveEvents <= MaxEvents
    /\ gameState = "PLAYING"
    /\ world # NoWorld /\ player # NoPlayer /\ engine
    /\ ~heroData.isDead
    /\ save' = SaveData(world, heroData, savedEntities(entities, order, 1), 0)
    /\ events' = events + SaveEvents
    /\ lastOp' = [NoOp EXCEPT !.op = "saveGame", !.now = clock, !.result = "saved"]
    /\ UNCHANGED <<gameState, engine, player, world, clock, entities, order,
                   playerEntity, lootEntities, inputDirection, playerVelocity>>

\* The forEach of loadGame over saveData.entities from place i on, up to the
\* entry spawnEntity throws on.
RECURSIVE loadEntities(_, _, _, _)
loadEntities(reg, entries, broken, i) ==
    IF i > Len(entries) \/ i = broken THEN reg
    ELSE loadEntities(spawnEntity(reg, entries[i].id, entries[i].data),
                      entries, broken, i + 1)

\* the registry loadGame leaves in an engine: clearEntities, the hero under
\* its new id, then the saved entities
loadRegistry(data) ==
    loadEntities(spawnEntity([ents |-> <<>>, order |-> <<>>, playerEntity |-> NoPlayer],
                             LoadedId, data.player),
                 data.entities, data.broken, 1)

loadEvents == IF save.kind = "data" THEN LoadEvents ELSE 1

\* App.loadGame, from the wizard or the HUD (which the 'HERO FALLEN' overlay
\* covers once the hero is dead). Without a save it only notifies; on a save
\* that does not parse, or on an entry that cannot be built, the catch block
\* reports the error and sends the App back to the wizard. Every call on the
\* engine goes through engineRef.current?. and is dropped, arguments
\* included, while there is no engine. The App enters PLAYING one second after
\* a load that did not throw.
LoadGame ==
    /\ events + loadEvents <= MaxEvents
    /\ \/ gameState = "WIZARD"
       \/ gameState = "PLAYING" /\ player # NoPlayer /\ ~heroData.isDead
    /\ events' = events + loadEvents
    /\ \/ /\ save.kind = "none"
          /\ lastOp' = [NoOp EXCEPT !.op = "loadGame", !.now = clock,
                                    !.result = "no save"]
          /\ UNCHANGED <<gameState, engine, player, world, entities, order,
                         playerEntity, lootEntities>>
       \/ /\ save.kind = "corrupt"
          /\ gameState' = "WIZARD"
          /\ lastOp' = [NoOp EXCEPT !.op = "loadGame", !.now = clock,
                                    !.result = "unreadable"]
          /\ UNCHANGED <<engine, player, world, entities, order, playerEntity,
                         lootEntities>>
       \/ /\ save.kind = "data"
          /\ world' = save.world
          /\ player' = LoadedId
          /\ LET reg == loadRegistry(save)
                 thrown == engine /\ save.broken # 0
             IN /\ entities' = IF engine THEN reg.ents ELSE entities
                /\ order' = IF engine THEN reg.order ELSE order
                /\ playerEntity' = IF engine THEN reg.playerEntity ELSE playerEntity
                /\ lootEntities' = IF engine THEN <<>> ELSE lootEntities
                /\ gameState' = IF thrown THEN "WIZARD" ELSE "PLAYING"
                /\ engine' = (engine \/ ~thrown)
                /\ lastOp' = [NoOp EXCEPT !.op = "loadGame", !.now = clock,
                                          !.target = LoadedId,
                                          !.result = IF thrown THEN "unreadable"
                                                     ELSE "loaded"]
    /\ UNCHANGED <<save, clock, inputDirection, playerVelocity>>

-----------------------------------------------------------------------------
\* Combat

\* a threshold of half the max hp
staggerThreshold_halfHp(e) == (e.maxHp * 50) \div 100 + (e.defense * 50) \div 100

\* the stagger threshold of damageEntity: maxHp * 0.25 + defense * 0.5
staggerThreshold(e) == (e.maxHp * 25) \div 100 + (e.defense * 50) \div 100

\* damageEntity's isStaggered: only an enemy can be staggered
isStaggered(e, now) == e.type = "enemy" /\ e.staggerEndTime > now

\* a damage computation without the 1.5x multiplier
damageDealt_flat(e, amount, now) ==
    Max(MinDamage, amount - Mul(e.defense, 20))

\* a damage computation that applies the 1.5x multiplier already to the hit
\* that starts the stagger
damageDealt_fromTrigger(e, amount, now) ==
    LET flat == Max(MinDamage, amount - Mul(e.defense, 20))
        raised == Max(MinDamage, Mul(amount, 150) - Mul(e.defense, 20))
    IN IF isStaggered(e, now) THEN raised
       ELSE IF e.type = "enemy" /\ e.staggerPoints + flat >= staggerThreshold(e)
            THEN raised
       ELSE flat

\* the damage damageEntity takes off e's hp for a hit of amount at time now
damageDealt(e, amount, now) ==
    Max(MinDamage, Mul(amount, IF isStaggered(e, now) THEN 150 ELSE 100)
                   - Mul(e.defense, 20))

\* a stagger of one second
staggerEnd_oneSecond(now) == now + 100

\* the end of the stagger window damageEntity opens at time now
staggerEnd(now) == now + StunDuration

\* a trigger condition that does not look at isStaggered
staggerTriggers_whileStaggered(e, points, now) ==
    e.type = "enemy" /\ points >= staggerThreshold(e)

\* the condition under which damageEntity starts a stagger, points being the
\* stagger points after the hit
staggerTriggers(e, points, now) ==
    e.type = "enemy" /\ points >= staggerThreshold(e) /\ ~isStaggered(e, now)

\* a death that drops loot whatever the type of the entity
handleEnemyDeath_anyType(loot, e, roll) ==
    IF roll = 0 THEN loot
    ELSE Append(loot, [item |-> LOOT_ITEMS[roll], position |-> e.position,
                       height |-> LootRaise])

\* VoxelEngine.handleEnemyDeath and spawnLoot: roll 0 is Math.random() >= 0.6,
\* roll i > 0 drops catalog entry i at the enemy's position.
handleEnemyDeath(loot, e, roll) ==
    IF e.type # "enemy" THEN loot
    ELSE IF roll = 0 THEN loot
    ELSE Append(loot, [item |-> LOOT_ITEMS[roll], position |-> e.position,
                       height |-> LootRaise])

\* a guard that lets the dead be hit
canDamage_dead(ents, id) ==
    id \in DOMAIN ents /\ ents[id].mesh

\* the guard of damageEntity: the id is known, its entity alive and meshed
canDamage(ents, id) ==
    id \in DOMAIN ents /\ ~ents[id].isDead /\ ents[id].mesh

\* VoxelEngine.damageEntity(id, amount) at clock time now, on the state
\* st = [ents, loot, staggered]; staggered collects the ids whose stagger the
\* call triggered.
damageEntity(st, id, amount, now, roll) ==
    IF ~canDamage(st.ents, id) THEN st
    ELSE
      LET e == st.ents[id]
          damage == damageDealt(e, amount, now)
          hp == e.hp - damage
          points == e.staggerPoints + damage
          trigger == staggerTriggers(e, points, now)
          e1 == [e EXCEPT !.hp = hp,
                          !.staggerPoints =
                              IF e.type # "enemy" THEN @
                              ELSE IF trigger THEN 0 ELSE points,
                          !.staggerEndTime =
                              IF trigger THEN staggerEnd(now) ELSE @,
                          !.isDead = (hp <= 0)]
      IN [st EXCEPT
            !.ents = [st.ents EXCEPT ![id] = e1],
            !.loot = IF hp <= 0 THEN handleEnemyDeath(st.loot, e1, roll) ELSE st.loot,
            !.staggered = IF trigger THEN st.staggered \cup {id} ELSE st.staggered]

\* VoxelEngine.getNearestHostile(range): the scan of the registry from place i
\* on, with the best candidate so far (near, at distance minDist).
RECURSIVE nearestFrom(_, _, _)

\* a scan in which the last of the nearest enemies wins
RECURSIVE nearestFrom_lastWins(_, _, _)
nearestFrom_lastWins(i, near, minDist) ==
    IF i > Len(order) THEN near
    ELSE LET e == entities[order[i]]
             d == distanceTo(e.position, entities[playerEntity].position)
         IN IF e.type = "enemy" /\ ~e.isDead /\ d <= minDist
              THEN nearestFrom_lastWins(i + 1, order[i], d)
              ELSE nearestFrom_lastWins(i + 1, near, minDist)

nearestFrom(i, near, minDist) ==
    IF i > Len(order) THEN near
    ELSE LET e == entities[order[i]]
             d == distanceTo(e.position, entities[playerEntity].position)
         IN IF e.type = "enemy" /\ ~e.isDead /\ d < minDist
              THEN nearestFrom(i + 1, order[i], d)
              ELSE nearestFrom(i + 1, near, minDist)

getNearestHostile(range) ==
    IF playerEntity = NoPlayer THEN "none" ELSE nearestFrom(1, "none", range)

\* the sum of the amounts of the buffs of one kind in a buff list
RECURSIVE buffBonus(_, _)
buffBonus(buffs, kind) ==
    IF buffs = <<>> THEN 0
    ELSE (IF Head(buffs).type = kind THEN Head(buffs).amount ELSE 0)
         + buffBonus(Tail(buffs), kind)

\* App.executeSkill(index), from a key or a HUD button between two frames.
\* Every clock reading of the handler returns the time the handler runs at.
ExecuteSkill ==
    /\ events < MaxEvents
    /\ gameState = "PLAYING"
    /\ engine
    /\ player # NoPlayer
    /\ ~heroData.isDead
    /\ \E index \in 1..Len(heroData.skills), lag \in HandlerLags :
        LET hero == heroData
            skill == hero.skills[index]
            target == getNearestHostile(IF skill.type = "ultimate" THEN 4000 ELSE 2000)
            finalDamage == skill.damage + Mul(buffBonus(hero.buffs, "power"), 50)
            now == clock + lag
            st0 == [ents |-> entities, loot |-> lootEntities, staggered |-> {}]
            \* the loot draws are made only when the hit kills an enemy
            kills == /\ target # "none"
                     /\ damageEntity(st0, target, finalDamage, now, 0).ents[target].isDead
        IN \E roll \in IF kills THEN DropRolls ELSE {0} :
           LET st == damageEntity(st0, target, finalDamage, now, roll)
           IN
           /\ clock' = now
           /\ entities' = st.ents
           /\ lootEntities' = st.loot
           /\ lastOp' = [NoOp EXCEPT !.op = "skill", !.now = now, !.target = target,
                                     !.amount = finalDamage, !.staggered = st.staggered]
    /\ events' = events + 1
    /\ UNCHANGED <<gameState, engine, player, world, save, order, playerEntity,
                   inputDirection, playerVelocity>>

\* a key handler that moves the hero itself
SetInputDirection_moves ==
    /\ events < MaxEvents
    /\ engine
    /\ gameState # "WIZARD"
    /\ \E dir \in InputDirections :
        /\ dir # inputDirection
        /\ dir # 0 => /\ gameState = "PLAYING"
                       /\ player # NoPlayer
                       /\ ~heroData.isDead
        /\ inputDirection' = dir
        /\ entities' = IF dir # 0
                         THEN [k \in DOMAIN entities |->
                                 IF k = player
                                   THEN [entities[k] EXCEPT !.position = @ + dir]
                                   ELSE entities[k]]
                         ELSE entities
    /\ events' = events + 1
    /\ lastOp' = [NoOp EXCEPT !.op = "input", !.now = clock]
    /\ UNCHANGED <<gameState, engine, player, world, save, clock, order,
                   playerEntity, lootEntities, playerVelocity>>

\* App.handleKeyDown / handleKeyUp / updateMovement: a movement key goes
\* down (only while playing with a living hero) or up.
SetInputDirection ==
    /\ events < MaxEvents
    /\ engine
    /\ gameState # "WIZARD"
    /\ \E dir \in InputDirections :
        /\ dir # inputDirection
        /\ dir # 0 => /\ gameState = "PLAYING"
                       /\ player # NoPlayer
                       /\ ~heroData.isDead
        /\ inputDirection' = dir
    /\ events' = events + 1
    /\ lastOp' = [NoOp EXCEPT !.op = "input", !.now = clock]
    /\ UNCHANGED <<gameState, engine, player, world, save, clock, entities, order,
                   playerEntity, lootEntities, playerVelocity>>

-----------------------------------------------------------------------------
\* The animation frame

\* a player block that moves the player before it drops the expired buffs
updatePlayer_expireLast(p, delta, now) ==
    LET buffs == SelectSeq(p.buffs, LAMBDA b : b.endTime > now)
        speedBonus == buffBonus(p.buffs, "speed")
        baseSpeed == p.speed + speedBonus
        moveSpeed == baseSpeed * 2
        acceleration == 4000
        friction == 1200
        diff == inputDirection * moveSpeed - playerVelocity
        velocity ==
            IF inputDirection # 0
              THEN playerVelocity
                   + Sign(diff) * ((Abs(diff) * Mul(acceleration, delta)) \div moveSpeed)
              ELSE playerVelocity - Mul(playerVelocity, Mul(friction, delta))
    IN [ entity |-> [p EXCEPT !.buffs = buffs,
                              !.position = @ + Mul(velocity, delta)],
         velocity |-> velocity ]

\* a player block that never drops a buff
updatePlayer_keepBuffs(p, delta, now) ==
    LET buffs == p.buffs
        speedBonus == buffBonus(buffs, "speed")
        baseSpeed == p.speed + speedBonus
        moveSpeed == baseSpeed * 2
        acceleration == 4000
        friction == 1200
        diff == inputDirection * moveSpeed - playerVelocity
        velocity ==
            IF inputDirection # 0
              THEN playerVelocity
                   + Sign(diff) * ((Abs(diff) * Mul(acceleration, delta)) \div moveSpeed)
              ELSE playerVelocity - Mul(playerVelocity, Mul(friction, delta))
    IN [ entity |-> [p EXCEPT !.buffs = buffs,
                              !.position = @ + Mul(velocity, delta)],
         velocity |-> velocity ]

\* VoxelEngine.animate, player block: buff expiry, then movement.  Returns
\* the player entity and the new playerVelocity.
updatePlayer(p, delta, now) ==
    LET buffs == SelectSeq(p.buffs, LAMBDA b : b.endTime > now)
        speedBonus == buffBonus(buffs, "speed")
        baseSpeed == p.speed + speedBonus
        moveSpeed == baseSpeed * 2
        acceleration == 4000
        friction == 1200
        diff == inputDirection * moveSpeed - playerVelocity
        velocity ==
            IF inputDirection # 0
              THEN playerVelocity
                   + Sign(diff) * ((Abs(diff) * Mul(acceleration, delta)) \div moveSpeed)
              ELSE playerVelocity - Mul(playerVelocity, Mul(friction, delta))
    IN [ entity |-> [p EXCEPT !.buffs = buffs,
                              !.position = @ + Mul(velocity, delta)],
         velocity |-> velocity ]

\* VoxelEngine.updateAI, the body of the forEach for the entity id.
\* st = [ents, loot, staggered, modes, hits, resolved]; pr holds the random
\* draws of the patrol branch.
\* a selector without the stagger check
aiMode_noStagger(e, target, now) ==
    LET dist == distanceTo(e.position, target.position)
    IN IF e.hp * 100 < 30 * e.maxHp /\ dist < FleeRange THEN "flee"
       ELSE IF dist < ChaseRange /\ dist > AttackRange THEN "chase"
       ELSE IF dist <= AttackRange THEN "attack"
       ELSE "patrol"

\* a selector that tries the attack band before the flee test
aiMode_attackBeforeFlee(e, target, now) ==
    LET dist == distanceTo(e.position, target.position)
    IN IF e.staggerEndTime > now THEN "stagger"
       ELSE IF dist <= AttackRange THEN "attack"
       ELSE IF e.hp * 100 < 30 * e.maxHp /\ dist < FleeRange THEN "flee"
       ELSE IF dist < ChaseRange /\ dist > AttackRange THEN "chase"
       ELSE "patrol"

\* The branch of the per-enemy AI step taken by enemy e against the player
\* entity target at time now.
aiMode(e, target, now) ==
    LET dist == distanceTo(e.position, target.position)
    IN IF e.staggerEndTime > now THEN "stagger"
       ELSE IF e.hp * 100 < 30 * e.maxHp /\ dist < FleeRange THEN "flee"
       ELSE IF dist < ChaseRange /\ dist > AttackRange THEN "chase"
       ELSE IF dist <= AttackRange THEN "attack"
       ELSE "patrol"

\* The patrol branch has no target left to walk to.
needsPatrolTarget(e) ==
    \/ e.patrolTarget = NoTarget
    \/ distanceTo(e.position, e.patrolTarget[1]) < PatrolArrive

\* a patrol that walks to its target on the frame that starts a wait
patrolMoves_afterReset(waiting, patrolTarget, waitTimer) ==
    ~waiting /\ patrolTarget # NoTarget

\* The patrol branch walks: the enemy was not waiting, has a target, and has
\* not just started a wait.
patrolMoves(waiting, patrolTarget, waitTimer) ==
    ~waiting /\ patrolTarget # NoTarget /\ waitTimer <= 0

\* a patrol target drawn around the place of the enemy
newPatrolTarget_aroundEnemy(e, pr) == <<e.position + pr.offset>>

\* The patrol target drawn around the spawn position.
newPatrolTarget(e, pr) == <<e.spawnPosition + pr.offset>>

\* a decay that is not stopped at zero
staggerDecay_unclamped(points, delta) ==
    IF points > 0 THEN points - delta * StaggerDecayRate ELSE points

\* The decay of the stagger points in a frame of length delta.
staggerDecay(points, delta) ==
    IF points > 0 THEN Max(0, points - delta * StaggerDecayRate) ELSE points

\* an attack that lands only within melee reach, ranged or not
attackLands_inReach(ranged, dist) == dist <= MeleeRange

\* The resolved attack calls damageEntity: always for a ranged enemy, within
\* melee reach for another.
attackLands(ranged, dist) == ranged \/ dist <= MeleeRange

\* an attack branch that restarts the cooldown only when the attack lands
attackStamp_onHit(e, resolves, strikes, now) ==
    IF strikes THEN now ELSE e.lastAttackTime

\* The lastAttackTime the attack branch leaves: now once the cooldown is
\* over, whether the attack lands or not.
attackStamp(e, resolves, strikes, now) ==
    IF resolves THEN now ELSE e.lastAttackTime

updateEnemy(st, id, delta, now, rolls) ==
    LET pr == rolls[id]
        e0 == st.ents[id]
        target == st.ents[playerEntity]
        e == [e0 EXCEPT !.staggerPoints = staggerDecay(@, delta)]
        dist == distanceTo(e.position, target.position)
        toPlayer == Sign(target.position - e.position)
        ranged == e.isRanged \/ LowerIncludesMageOrArcher(e.class)
        canAttack == now - e.lastAttackTime > AttackCooldown
        mode == aiMode(e, target, now)
        \* attack branch
        strikes == mode = "attack" /\ canAttack /\ attackLands(ranged, dist)
        amount == IF ranged THEN Mul(e.power, 50) ELSE Mul(e.power, 80)
        st1 == IF strikes THEN damageEntity(st, "player", amount, now, 0) ELSE st
        \* patrol branch
        waiting == e.waitTimer > 0
        needTarget == needsPatrolTarget(e)
        patrolTarget == IF mode = "patrol" /\ ~waiting /\ needTarget /\ pr.pick
                          THEN newPatrolTarget(e, pr)
                          ELSE e.patrolTarget
        waitTimer == IF mode # "patrol" THEN e.waitTimer
                     ELSE IF waiting THEN e.waitTimer - delta
                     ELSE IF needTarget /\ ~pr.pick THEN pr.wait
                     ELSE e.waitTimer
        moveDir == CASE mode = "stagger" -> 0
                     [] mode = "flee" -> -toPlayer
                     [] mode = "chase" -> toPlayer
                     [] mode = "attack" -> toPlayer
                     [] mode = "patrol" ->
                          IF patrolMoves(waiting, patrolTarget, waitTimer)
                            THEN Sign(patrolTarget[1] - e.position) ELSE 0
        speedMult == CASE mode = "flee" -> 140
                       [] mode = "chase" -> 110
                       [] mode = "attack" -> 30
                       [] mode = "patrol" -> 50
                       [] OTHER -> 100
        speed == Mul(IF e.speed # 0 THEN e.speed ELSE DefaultSpeed, speedMult)
        e1 == [e EXCEPT !.patrolTarget = patrolTarget,
                        !.waitTimer = waitTimer,
                        !.lastAttackTime =
                            attackStamp(e, mode = "attack" /\ canAttack, strikes, now),
                        !.position = @ + moveDir * Mul(speed, delta)]
    IN [st1 EXCEPT !.ents = [st1.ents EXCEPT ![id] = e1],
                   !.modes = [@ EXCEPT ![id] = mode],
                   !.hits = IF strikes THEN Append(@, [by |-> id, amount |-> amount])
                                       ELSE @,
                   !.resolved = IF mode = "attack" /\ canAttack THEN @ \cup {id} ELSE @]

\* VoxelEngine.updateAI: the forEach over the registry, from place i on.
RECURSIVE updateAIFrom(_, _, _, _, _)
updateAIFrom(i, st, delta, now, rolls) ==
    IF i > Len(order) THEN st
    ELSE LET id == order[i]
             e == st.ents[id]
         IN IF e.type # "enemy" \/ e.isDead \/ ~e.mesh
              THEN updateAIFrom(i + 1, st, delta, now, rolls)
              ELSE updateAIFrom(i + 1, updateEnemy(st, id, delta, now, rolls),
                                delta, now, rolls)

\* an AI pass that goes over the registry twice
updateAI_twice(st, delta, now, rolls) ==
    IF playerEntity = NoPlayer THEN st
    ELSE IF st.ents[playerEntity].isDead THEN st
    ELSE LET again == [id \in DOMAIN st.ents |->
                          IF id \in DOMAIN rolls THEN rolls[id]
                          ELSE [pick |-> FALSE, offset |-> 0, wait |-> 250]]
         IN updateAIFrom(1, updateAIFrom(1, st, delta, now, rolls), delta, now, again)

\* VoxelEngine.updateAI: nothing without a living player, else the forEach.
updateAI(st, delta, now, rolls) ==
    IF playerEntity = NoPlayer THEN st
    ELSE IF st.ents[playerEntity].isDead THEN st
    ELSE updateAIFrom(1, st, delta, now, rolls)

\* The float animation of updateLoot, position.y += sin(elapsedTime * 3) *
\* 0.01, to the nearest hundredth: +1 where the sine is at least 0.5, -1 where
\* it is at most -0.5. The phase is in 1/10000 rad, 2 pi being 62832.
lootBob(now) ==
    LET phase == (300 * now) % 62832
    IN IF phase >= 5236 /\ phase <= 26180 THEN 1
       ELSE IF phase >= 36652 /\ phase <= 57596 THEN -1
       ELSE 0

\* a pickup test that measures the distance on the ground
inPickupRange_onGround(lootPos, height, playerPos) ==
    (lootPos - playerPos) * (lootPos - playerPos) < PickupRange * PickupRange

\* the pickup test of updateLoot: the distance of the loot, at its height
\* above the ground the player stands on, to the player is below 4
inPickupRange(lootPos, height, playerPos) ==
    (lootPos - playerPos) * (lootPos - playerPos) + height * height
        < PickupRange * PickupRange

\* a pickup whose buff takes the place of the buffs there are
collectLoot_replaceBuffs(p, item, now) ==
    IF item.type = "health"
      THEN [p EXCEPT !.hp = Min(p.maxHp, p.hp + item.value)]
    ELSE IF item.type = "buff" /\ item.subType # "none"
      THEN [p EXCEPT !.buffs = << [type |-> item.subType,
                                   amount |-> item.value,
                                   endTime |-> now + BuffDuration] >>]
    ELSE p

\* a pickup whose healing is not capped
collectLoot_noCap(p, item, now) ==
    IF item.type = "health"
      THEN [p EXCEPT !.hp = p.hp + item.value]
    ELSE IF item.type = "buff" /\ item.subType # "none"
      THEN [p EXCEPT !.buffs = Append(@, [type |-> item.subType,
                                          amount |-> item.value,
                                          endTime |-> now + BuffDuration])]
    ELSE p

\* VoxelEngine.collectLoot: the effect of an item on the player entity
collectLoot(p, item, now) ==
    IF item.type = "health"
      THEN [p EXCEPT !.hp = Min(p.maxHp, p.hp + item.value)]
    ELSE IF item.type = "buff" /\ item.subType # "none"
      THEN [p EXCEPT !.buffs = Append(@, [type |-> item.subType,
                                          amount |-> item.value,
                                          endTime |-> now + BuffDuration])]
    ELSE p

\* VoxelEngine.updateLoot: the forEach over the loot entities, from place i
\* on; st.loot collects the loot entities that stay.
RECURSIVE updateLootFrom(_, _, _, _)
updateLootFrom(i, loot, st, now) ==
    IF i > Len(loot) THEN st
    ELSE LET l == [loot[i] EXCEPT !.height = @ + lootBob(now)]
             p == st.ents[playerEntity]
         IN IF inPickupRange(l.position, l.height, p.position)
              THEN updateLootFrom(i + 1, loot,
                     [st EXCEPT !.ents = [@ EXCEPT ![playerEntity] =
                                             collectLoot(p, l.item, now)],
                                !.collected = Append(@, l.item)], now)
              ELSE updateLootFrom(i + 1, loot,
                     [st EXCEPT !.loot = Append(@, l)], now)

updateLoot(st, now) ==
    IF playerEntity = NoPlayer THEN st
    ELSE updateLootFrom(1, st.loot, [st EXCEPT !.loot = <<>>], now)

\* the entities the forEach of updateAI does not skip
livingEnemies ==
    {id \in DOMAIN entities : /\ entities[id].type = "enemy"
                              /\ ~entities[id].isDead
                              /\ entities[id].mesh}

\* The enemies whose AI step of this frame draws Math.random() for a patrol
\* decision: the AI runs, the enemy patrols, is not waiting and has no target.
patrolDraws(ents, now) ==
    IF playerEntity = NoPlayer THEN {}
    ELSE IF ents[playerEntity].isDead THEN {}
    ELSE {id \in livingEnemies : /\ aiMode(ents[id], ents[playerEntity], now) = "patrol"
                                 /\ ents[id].waitTimer <= 0
                                 /\ needsPatrolTarget(ents[id])}

\* Some living enemy is inside a stagger window at the last clock reading.
staggerRunning ==
    \E id \in livingEnemies : entities[id].staggerEndTime > clock

\* VoxelEngine.animate: one animation frame, dt after the last clock reading.
\* requestAnimationFrame keeps the frames coming: past the horizon of the run
\* long frames still follow while a stagger window is open.
\* a step as long as the frame took
frameDelta_unclamped(dt) == dt

\* The integration step of a frame that comes dt after the last one:
\* Math.min(clock.getDelta(), 0.1).
frameDelta(dt) == Min(dt, MaxDelta)

\* The player holds a buff.
buffRunning ==
    playerEntity # NoPlayer /\ entities[playerEntity].buffs # <<>>

\* The frame times drawn in the current state: a pause is drawn only while
\* a buff is running, its expiry being all that so long a gap decides.
frameTimes == FrameTimes \cup (IF buffRunning THEN PauseTimes ELSE {})

Tick ==
    /\ engine
    /\ \E dt \in frameTimes :
        LET now == clock + dt
            delta == frameDelta(dt)
            moves == /\ playerEntity # NoPlayer
                     /\ entities[playerEntity].mesh
                     /\ ~entities[playerEntity].isDead
            moved == updatePlayer(entities[playerEntity], delta, now)
            st0 == [ ents |-> IF moves
                                THEN [entities EXCEPT ![playerEntity] = moved.entity]
                                ELSE entities,
                     loot |-> lootEntities, staggered |-> {},
                     modes |-> [id \in DOMAIN entities |-> "none"],
                     hits |-> <<>>, resolved |-> {}, collected |-> <<>> ]
        IN
        /\ events < MaxEvents \/ (staggerRunning /\ dt > MaxDelta)
        /\ \E rolls \in [patrolDraws(st0.ents, now) -> PatrolRolls] :
           LET st1 == updateAI(st0, delta, now, rolls)
               st2 == updateLoot(st1, now)
           IN
           /\ clock' = now
           /\ entities' = st2.ents
           /\ lootEntities' = st2.loot
           /\ playerVelocity' = IF moves THEN moved.velocity ELSE playerVelocity
           /\ lastOp' = [NoOp EXCEPT !.op = "tick", !.now = now, !.delta = delta,
                                     !.staggered = st2.staggered, !.modes = st2.modes,
                                     !.hits = st2.hits, !.resolved = st2.resolved,
                                     !.collected = st2.collected,
                                     !.expired =
                                        IF moves
                                          THEN SelectSeq(entities[playerEntity].buffs,
                                                         LAMBDA b : b.endTime <= now)
                                          ELSE <<>>]
    /\ events' = IF events < MaxEvents THEN events + 1 ELSE events
    /\ UNCHANGED <<gameState, engine, player, world, save, order, playerEntity,
                   inputDirection>>

Next ==
    \/ InitWorld
    \/ CreateHero
    \/ SaveGame
    \/ LoadGame
    \/ ExecuteSkill
    \/ SetInputDirection
    \/ Tick

Spec == Init /\ [][Next]_vars

\* ENABLED <<Tick>>_vars in closed form: FrameTimes holds a frame longer
\* than MaxDelta, and every frame advances the clock.
TickEnabled == engine /\ (events < MaxEvents \/ staggerRunning)

\* The animation loop never stops, a frame that can run does run: weak
\* fairness of Tick, WF_vars(Tick), written out with TickEnabled.
FairSpec == Spec /\ ([]<>~TickEnabled \/ []<><<Tick>>_vars)


-----------------------------------------------------------------------------
\* Properties

\* A frame of animate has just run.
TickStep == lastOp'.op = "tick" /\ clock' > clock

\* executeSkill has just run.
SkillStep == lastOp'.op = "skill" /\ clock' > clock

\* executeSkill has just called damageEntity on the living entity t.
SkillHits(t) ==
    /\ SkillStep
    /\ lastOp'.target = t
    /\ t \in DOMAIN entities
    /\ ~entities[t].isDead /\ entities[t].mesh

\* The effective damage as the specification words it: max(1, raw * m -
\* defense * 0.2) with m = 1.5 for a staggered target and 1.0 otherwise.
EffectiveDamage(raw, defense, staggered) ==
    Max(100, (raw * (IF staggered THEN 150 ELSE 100)) \div 100
             - (defense * 20) \div 100)

\* The hp left of hp after the damageEntity calls hits, made in order on a
\* target of the given defense that is never staggered; a call on a target
\* that is already dead does nothing.
RECURSIVE HpAfterHits(_, _, _)
HpAfterHits(hp, hits, defense) ==
    IF hits = <<>> \/ hp <= 0 THEN hp
    ELSE HpAfterHits(hp - EffectiveDamage(Head(hits).amount, defense, FALSE),
                     Tail(hits), defense)

\* C1: every entity of the registry has 0 <= hp <= maxHp, whatever sequence
\* of spawns, hits, frames and loot pickups led to the state.
C1_HpWithinBounds ==
    \A id \in DOMAIN entities :
        0 <= entities[id].hp /\ entities[id].hp <= entities[id].maxHp

\* C2: after every damageEntity call and after every frame, each entity of
\* the registry is dead exactly when its hp is at most 0.
C2_DeadIffNoHp ==
    [][ (TickStep \/ SkillStep) =>
          \A id \in DOMAIN entities' :
              entities'[id].isDead <=> entities'[id].hp <= 0 ]_vars

\* C3: a damageEntity call on a living target with a mesh lowers its hp by
\* exactly max(1, raw * m - defense * 0.2), m being 1.5 when the target's
\* staggerEndTime is set and later than now and 1.0 otherwise. The calls are
\* the one of a skill cast and the attacks of a frame that picks up no loot.
C3_DamageFormula ==
    [][ /\ \A t \in DOMAIN entities :
              SkillHits(t) =>
                  entities'[t].hp = entities[t].hp
                      - EffectiveDamage(lastOp'.amount, entities[t].defense,
                                        entities[t].staggerEndTime > lastOp'.now)
        /\ ( /\ TickStep
             /\ "player" \in DOMAIN entities
             /\ ~entities["player"].isDead
             /\ lastOp'.collected = <<>> ) =>
               entities'["player"].hp =
                   HpAfterHits(entities["player"].hp, lastOp'.hits,
                               entities["player"].defense) ]_vars

\* C3 witness: a skill has hit an enemy inside its stagger window without
\* starting a new one, and the enemy survived the hit.
C3_Witness_StaggeredHit ==
    /\ lastOp.op = "skill"
    /\ lastOp.target \in DOMAIN entities
    /\ lastOp.staggered = {}
    /\ entities[lastOp.target].staggerEndTime > lastOp.now
    /\ ~entities[lastOp.target].isDead


\* The stagger threshold as the specification words it.
Threshold(e) == (e.maxHp * 25) \div 100 + (e.defense * 50) \div 100

\* Entity t is an enemy inside a stagger window at time now.
InWindow(t, now) ==
    entities[t].type = "enemy" /\ entities[t].staggerEndTime > now

\* C4: a damageEntity call on a living, unstaggered enemy that brings its
\* accumulated stagger points to the threshold maxHp * 0.25 + defense * 0.5
\* or above starts exactly one stagger (staggerEndTime = now + 2.0,
\* staggerPoints = 0); a call that leaves them below the threshold starts none.
C4_StaggerTrigger ==
    [][ \A t \in DOMAIN entities :
          ( /\ SkillHits(t)
            /\ entities[t].type = "enemy"
            /\ ~InWindow(t, lastOp'.now) ) =>
            LET e == entities[t]
                points == e.staggerPoints
                          + EffectiveDamage(lastOp'.amount, e.defense, FALSE)
            IN IF points >= Threshold(e)
                 THEN /\ lastOp'.staggered = {t}
                      /\ entities'[t].staggerEndTime = lastOp'.now + 200
                      /\ entities'[t].staggerPoints = 0
                 ELSE /\ lastOp'.staggered = {}
                      /\ entities'[t].staggerEndTime = e.staggerEndTime
                      /\ entities'[t].staggerPoints = points ]_vars

\* C4 witness: a skill has just staggered the enemy it hit.
C4_Witness_Triggered ==
    /\ lastOp.op = "skill"
    /\ lastOp.staggered = {lastOp.target}
    /\ entities[lastOp.target].staggerEndTime = lastOp.now + 200
    /\ entities[lastOp.target].staggerPoints = 0

\* C5: after every damageEntity call and every frame, every enemy has
\* 0 <= staggerPoints < maxHp * 0.25 + defense * 0.5.
C5_StaggerPointsBelowThreshold ==
    [][ (TickStep \/ SkillStep) =>
          \A id \in DOMAIN entities' :
              entities'[id].type = "enemy" =>
                  /\ 0 <= entities'[id].staggerPoints
                  /\ entities'[id].staggerPoints < Threshold(entities'[id]) ]_vars

\* C6: a damageEntity call on an enemy whose staggerEndTime is later than now
\* leaves its staggerPoints unchanged.
C6_NoPointsWhileStaggered ==
    [][ \A t \in DOMAIN entities :
          (SkillHits(t) /\ InWindow(t, lastOp'.now)) =>
              entities'[t].staggerPoints = entities[t].staggerPoints ]_vars

\* C7: an enemy has at most one active stagger window: no step taken while
\* its staggerEndTime is later than the time of the step, a damageEntity call
\* least of all, changes staggerEndTime.
C7_WindowNotRestarted ==
    [][ \A id \in DOMAIN entities :
          (id \in DOMAIN entities' /\ InWindow(id, clock')) =>
              entities'[id].staggerEndTime = entities[id].staggerEndTime ]_vars

\* C7 witness: a skill has hit an enemy inside its stagger window hard enough
\* to put its stagger points at the threshold or above, and the window stayed.
C7_Witness_HitInsideWindow ==
    /\ lastOp.op = "skill"
    /\ lastOp.target \in DOMAIN entities
    /\ lastOp.staggered = {}
    /\ entities[lastOp.target].staggerEndTime > lastOp.now
    /\ entities[lastOp.target].staggerPoints >= Threshold(entities[lastOp.target])


\* The branches of the behaviour selector that make a decision.
Decisions == {"flee", "chase", "attack", "patrol"}

\* updateAI does not return at once: there is a living player entity.
AIRuns == playerEntity # NoPlayer /\ ~entities[playerEntity].isDead

\* C8, the window: staggerEndTime only ever changes to 2.0 s after the time
\* of a hit that triggers a stagger, so a stagger triggered at t covers the
\* times before t + 2.0; a hit at a time inside the window takes the 1.5x
\* multiplier and one at or after its end takes 1.0x; a frame at a time
\* inside the window leaves a living enemy in the stagger branch, and a frame
\* at or after its end makes an AI decision for it whenever the AI runs.
C8_Window ==
    [][ \A id \in DOMAIN entities :
          (entities[id].type = "enemy" /\ id \in DOMAIN entities') =>
            LET e == entities[id]
                now == lastOp'.now
            IN /\ entities'[id].staggerEndTime # e.staggerEndTime =>
                    /\ SkillStep
                    /\ lastOp'.staggered = {id}
                    /\ entities'[id].staggerEndTime = now + 200
               /\ SkillHits(id) =>
                    entities'[id].hp = e.hp
                        - EffectiveDamage(lastOp'.amount, e.defense,
                                          now < e.staggerEndTime)
               /\ (TickStep /\ AIRuns /\ ~e.isDead) =>
                    IF now < e.staggerEndTime
                      THEN lastOp'.modes[id] = "stagger"
                      ELSE lastOp'.modes[id] \in Decisions ]_vars

C9_StaggeredEnemyIdle ==
    [][ TickStep =>
          \A id \in DOMAIN entities :
              ( /\ entities[id].type = "enemy"
                /\ entities[id].staggerEndTime > lastOp'.now ) =>
                  /\ entities'[id].position = entities[id].position
                  /\ entities'[id].patrolTarget = entities[id].patrolTarget
                  /\ entities'[id].waitTimer = entities[id].waitTimer
                  /\ entities'[id].lastAttackTime = entities[id].lastAttackTime
                  /\ \A i \in 1..Len(lastOp'.hits) : lastOp'.hits[i].by # id ]_vars

\* C9 witness: the AI of a frame has found a living enemy staggered, next to
\* a living player it would otherwise have attacked.
C9_Witness_SkippedAttack ==
    /\ lastOp.op = "tick"
    /\ playerEntity # NoPlayer
    /\ \E id \in DOMAIN entities :
          /\ lastOp.modes[id] = "stagger"
          /\ distanceTo(entities[id].position,
                        entities[playerEntity].position) <= 600
          /\ lastOp.now - entities[id].lastAttackTime > 150


\* The step puts a new entity under id: createHero spawns the hero again.
Respawns(id) == lastOp'.op = "createHero" /\ lastOp'.target = id

\* C10: dead is terminal. An entity that is dead and stays in the registry
\* stays dead; no damageEntity call and no frame changes its hp,
\* staggerPoints, staggerEndTime or position; a dead enemy makes none of a
\* frame's attacks.
C10_DeadIsTerminal ==
    [][ \A id \in DOMAIN entities :
          ( /\ entities[id].isDead
            /\ id \in DOMAIN entities'
            /\ ~Respawns(id) ) =>
              /\ entities'[id].isDead
              /\ (TickStep \/ SkillStep) =>
                    /\ entities'[id].hp = entities[id].hp
                    /\ entities'[id].staggerPoints = entities[id].staggerPoints
                    /\ entities'[id].staggerEndTime = entities[id].staggerEndTime
                    /\ entities'[id].position = entities[id].position
              /\ TickStep =>
                    \A i \in 1..Len(lastOp'.hits) : lastOp'.hits[i].by # id ]_vars


\* The engine state damageEntity works on, as the current state has it.
EngineState == [ents |-> entities, loot |-> lootEntities, staggered |-> {}]

\* The engine state with the mesh of entity id taken away.
WithoutMesh(id) ==
    [EngineState EXCEPT !.ents = [@ EXCEPT ![id] = [@ EXCEPT !.mesh = FALSE]]]

\* C11: invalid operations are no-ops. In every state, damageEntity on an
\* id the registry does not know, on a dead entity or on an entity without a
\* mesh returns the engine state it was given (no entity changed, no loot
\* spawned, no stagger), whatever the amount, the time and the loot draw;
\* and getNearestHostile returns none when there is no player entity.
C11_InvalidOpsAreNoOps ==
    /\ \A amount \in {100, 4000}, now \in {clock, clock + 5}, roll \in {0, 1} :
          /\ damageEntity(EngineState, "ghost", amount, now, roll) = EngineState
          /\ \A id \in DOMAIN entities :
                /\ entities[id].isDead =>
                      damageEntity(EngineState, id, amount, now, roll) = EngineState
                /\ damageEntity(WithoutMesh(id), id, amount, now, roll)
                      = WithoutMesh(id)
    /\ playerEntity = NoPlayer =>
          \A range \in {2000, 4000} : getNearestHostile(range) = "none"

\* C11 witness: a frame has made two attacks on the player, the first of
\* which killed it, so the second was a damageEntity call on a dead entity.
C11_Witness_HitOnDead ==
    /\ lastOp.op = "tick"
    /\ Len(lastOp.hits) = 2
    /\ "player" \in DOMAIN entities
    /\ entities["player"].isDead
    /\ entities["player"].hp
         > entities["player"].maxHp - lastOp.hits[1].amount - lastOp.hits[2].amount
              + 2 * Mul(entities["player"].defense, 20)


\* The places in the registry of the living enemies closer than range to
\* the player entity.
HostilesWithin(range) ==
    {i \in 1..Len(order) :
        /\ entities[order[i]].type = "enemy"
        /\ ~entities[order[i]].isDead
        /\ distanceTo(entities[order[i]].position,
                      entities[playerEntity].position) < range}

\* The distance to the player entity of the entity at place i of the registry.
DistanceOf(i) ==
    distanceTo(entities[order[i]].position, entities[playerEntity].position)

\* C12: getNearestHostile(range) returns none when there is no player or no
\* living enemy is closer than range; otherwise it returns the living enemy
\* at the smallest distance, the first spawned of them when several are at
\* that distance; so never a dead entity, an NPC or the player.
C12_NearestHostile ==
    \A range \in {2000, 4000} :
        IF playerEntity = NoPlayer THEN getNearestHostile(range) = "none"
        ELSE IF HostilesWithin(range) = {} THEN getNearestHostile(range) = "none"
        ELSE \E i \in HostilesWithin(range) :
                /\ getNearestHostile(range) = order[i]
                /\ \A j \in HostilesWithin(range) :
                      \/ DistanceOf(j) > DistanceOf(i)
                      \/ DistanceOf(j) = DistanceOf(i) /\ j >= i

\* C12 witness: two living enemies are at the same distance in range of the
\* player, and a skill has hit the first spawned of them.
C12_Witness_Tie ==
    /\ lastOp.op = "skill"
    /\ playerEntity # NoPlayer
    /\ \E i, j \in HostilesWithin(2000) :
          /\ i < j
          /\ DistanceOf(i) = DistanceOf(j)
          /\ lastOp.target = order[i]


\* The items of the loot catalog.
Catalog == {LOOT_ITEMS[i] : i \in 1..Len(LOOT_ITEMS)}

\* The enemies of the registry that are dead.
DeadEnemies ==
    {id \in DOMAIN entities : entities[id].type = "enemy" /\ entities[id].isDead}

\* C13, steps: a skill cast adds at most one loot entity, and adds one only
\* when its target is an enemy that the hit killed; the new entity carries a
\* catalog item and lies at the enemy's position; the older loot entities
\* stay as they are. A frame, in which only the player can die, adds none:
\* every loot entity is kept or collected. No other step adds one: loadGame
\* clears the loot, the other handlers leave it alone.
C13_LootSteps ==
    [][ /\ SkillStep =>
              \/ lootEntities' = lootEntities
              \/ /\ Len(lootEntities') = Len(lootEntities) + 1
                 /\ SubSeq(lootEntities', 1, Len(lootEntities)) = lootEntities
                 /\ lootEntities'[Len(lootEntities')].item \in Catalog
                 /\ lastOp'.target \in DOMAIN entities
                 /\ entities[lastOp'.target].type = "enemy"
                 /\ ~entities[lastOp'.target].isDead
                 /\ entities'[lastOp'.target].isDead
                 /\ lootEntities'[Len(lootEntities')].position
                       = entities'[lastOp'.target].position
        /\ TickStep =>
              Len(lootEntities') + Len(lastOp'.collected) = Len(lootEntities)
        /\ (~SkillStep /\ ~TickStep) =>
              \/ lootEntities' = lootEntities
              \/ lastOp'.op = "loadGame" /\ lootEntities' = <<>> ]_vars

\* C13: each enemy death creates zero or one loot entity with a catalog item
\* (C13_LootSteps), so there are never more loot entities than dead enemies;
\* and the death of the player or of an NPC creates none, whatever the draw.
C13_LootOnlyFromEnemyDeaths ==
    /\ C13_LootSteps
    /\ [](Len(lootEntities) <= Cardinality(DeadEnemies))
    /\ [](\A id \in DOMAIN entities, roll \in DropRolls :
             entities[id].type # "enemy" =>
                 damageEntity(EngineState, id, 100000, clock, roll).loot
                     = lootEntities)

\* C13 witness: a skill has killed an enemy, which dropped a loot entity
\* where it died.
C13_Witness_Drop ==
    /\ lastOp.op = "skill"
    /\ lastOp.target \in DeadEnemies
    /\ lootEntities # <<>>
    /\ lootEntities[Len(lootEntities)].position = entities[lastOp.target].position
    /\ lootEntities[Len(lootEntities)].height = LootRaise


\* The loot entity l is at distance < 4 from a player standing at p.
Near(l, p) ==
    (l.position - p) * (l.position - p) + l.height * l.height < 400 * 400

\* The items of a sequence of loot entities.
ItemsOf(loot) == [i \in 1..Len(loot) |-> loot[i].item]

\* C14: on a frame with a player entity, every loot entity that the pickup
\* check finds at distance < 4 from the player (the player where the frame
\* has moved it, the loot at the height the frame has floated it to) leaves
\* the loot set and one pickup event carries its item, whatever its kind;
\* every other loot entity stays; so no loot entity is collected twice.
C14_PickupInRange ==
    [][ (TickStep /\ playerEntity # NoPlayer) =>
          LET p == entities'[playerEntity].position
              floated == [i \in 1..Len(lootEntities) |->
                             [lootEntities[i] EXCEPT
                                 !.height = @ + lootBob(lastOp'.now)]]
              isNear(l) == Near(l, p)
              isFar(l) == ~Near(l, p)
          IN /\ lootEntities' = SelectSeq(floated, isFar)
             /\ lastOp'.collected = ItemsOf(SelectSeq(floated, isNear)) ]_vars

\* C14 witness: a frame has collected a material item, which has left the
\* loot set.
C14_Witness_MaterialCollected ==
    /\ lastOp.op = "tick"
    /\ Len(lastOp.collected) = 1
    /\ lastOp.collected[1].type = "material"
    /\ lootEntities = <<>>


\* The hp of the player entity p once the attacks of the frame that has just
\* run are taken off: a player that was dead already takes none, and the
\* attacks are made on the entity registered under the id 'player'.
HpAfterAttacks(p) ==
    IF p.isDead \/ playerEntity # "player" THEN p.hp
    ELSE HpAfterHits(p.hp, lastOp'.hits, p.defense)

\* C15, the pickup itself: in every state, collecting a health item changes
\* nothing of the player entity but its hp, which becomes
\* min(maxHp, hp + item.value).
C15_HealthEffect ==
    playerEntity # NoPlayer =>
        \A item \in Catalog :
            item.type = "health" =>
                LET p == entities[playerEntity]
                IN collectLoot(p, item, clock)
                     = [p EXCEPT !.hp = Min(p.maxHp, p.hp + item.value)]

\* C15: picking up a health item sets the player's hp to
\* min(maxHp, hp + item.value) (C15_HealthEffect); a frame that picks one up
\* leaves the player with that hp, counted from the hp the attacks of the
\* frame left, never above maxHp, and with the maxHp it had.
C15_HealthPickup ==
    /\ []C15_HealthEffect
    /\ [][ ( /\ TickStep
             /\ playerEntity # NoPlayer
             /\ Len(lastOp'.collected) = 1
             /\ lastOp'.collected[1].type = "health" ) =>
               LET p == entities[playerEntity]
                   q == entities'[playerEntity]
               IN /\ q.hp = Min(p.maxHp,
                                HpAfterAttacks(p) + lastOp'.collected[1].value)
                  /\ q.hp <= q.maxHp
                  /\ q.maxHp = p.maxHp ]_vars

\* C15 witness: a frame has picked up a health item that healed a living
\* player, hurt by an attack of the same frame, back to its maxHp.
C15_Witness_HealedToCap ==
    /\ lastOp.op = "tick"
    /\ Len(lastOp.collected) = 1
    /\ lastOp.collected[1].type = "health"
    /\ lastOp.hits # <<>>
    /\ ~entities[playerEntity].isDead
    /\ entities[playerEntity].hp = entities[playerEntity].maxHp


\* The Buff the specification grants for a buff item picked up at time now.
BuffOf(item, now) ==
    [type |-> item.subType, amount |-> item.value, endTime |-> now + 3000]

\* C16, the pickup itself: in every state, collecting a buff item changes
\* nothing of the player entity but its buff list, which gets the item's
\* Buff appended; collecting a material item changes nothing at all.
C16_BuffEffect ==
    playerEntity # NoPlayer =>
        \A item \in Catalog :
            LET p == entities[playerEntity]
            IN /\ item.type = "buff" =>
                    collectLoot(p, item, clock)
                      = [p EXCEPT !.buffs = Append(p.buffs, BuffOf(item, clock))]
               /\ item.type = "material" => collectLoot(p, item, clock) = p

\* C16: picking up a buff item appends exactly one Buff with the catalog's
\* kind and amount and endTime = now + 30, and picking up a material item
\* changes nothing (C16_BuffEffect); a frame that picks up a buff item leaves
\* the player with the buffs the frame's expiry pass kept, then the new one,
\* and with the hp the attacks of the frame left; one that picks up a
\* material item leaves the buffs the expiry pass kept and that hp.
C16_BuffPickup ==
    /\ []C16_BuffEffect
    /\ [][ ( /\ TickStep
             /\ playerEntity # NoPlayer
             /\ Len(lastOp'.collected) = 1
             /\ lastOp'.collected[1].type # "health" ) =>
               LET p == entities[playerEntity]
                   q == entities'[playerEntity]
                   item == lastOp'.collected[1]
                   alive(b) == b.endTime > lastOp'.now
                   kept == IF p.isDead THEN p.buffs ELSE SelectSeq(p.buffs, alive)
               IN /\ q.hp = HpAfterAttacks(p)
                  /\ q.maxHp = p.maxHp
                  /\ q.buffs = IF item.type = "buff"
                                 THEN Append(kept, BuffOf(item, lastOp'.now))
                                 ELSE kept ]_vars

\* C16 witness: a frame has picked up a buff item and the player holds its
\* Buff, ending 30 s after the frame.
C16_Witness_BuffGranted ==
    /\ lastOp.op = "tick"
    /\ Len(lastOp.collected) = 1
    /\ lastOp.collected[1].type = "buff"
    /\ entities[playerEntity].buffs
         = << BuffOf(lastOp.collected[1], lastOp.now) >>


\* The buffs the specification grants for the items a frame at time now
\* has picked up, in the order of the pickups.
RECURSIVE GrantedBuffs(_, _)
GrantedBuffs(items, now) ==
    IF items = <<>> THEN <<>>
    ELSE (IF Head(items).type = "buff" THEN << BuffOf(Head(items), now) >> ELSE <<>>)
         \o GrantedBuffs(Tail(items), now)

\* C17 as stated: after every frame the player's buff list holds no buff
\* with endTime <= now.
C17_NoExpiredBuffAfterTick ==
    (lastOp.op = "tick" /\ playerEntity # NoPlayer) =>
        \A i \in 1..Len(entities[playerEntity].buffs) :
            entities[playerEntity].buffs[i].endTime > clock

\* C17 as amended: a frame that finds the player alive keeps, in their
\* order, exactly the buffs with endTime > now, so that after it the list
\* holds no buff with endTime <= now: a buff granted at t0 is kept by
\* every frame with now < t0 + 30 and dropped by the first frame with
\* now >= t0 + 30.  A frame that finds the player dead drops none.  The
\* buffs of the items picked up in the frame follow the buffs kept.
C17_BuffExpiry ==
    [][ (TickStep /\ playerEntity # NoPlayer) =>
          LET p == entities[playerEntity]
              q == entities'[playerEntity]
              now == lastOp'.now
              running(b) == b.endTime > now
              granted == GrantedBuffs(lastOp'.collected, now)
          IN IF p.isDead
               THEN q.buffs = p.buffs \o granted
               ELSE /\ q.buffs = SelectSeq(p.buffs, running) \o granted
                    /\ \A i \in 1..Len(q.buffs) : q.buffs[i].endTime > now ]_vars

\* C17 witness: a frame has dropped a buff of the living player, 30 s or
\* more after it was granted.
C17_Witness_Expired ==
    /\ lastOp.op = "tick"
    /\ lastOp.expired # <<>>
    /\ lastOp.expired[1].endTime <= lastOp.now
    /\ entities[playerEntity].buffs = <<>>

\* A frame 29.9 s after the grant has kept the buff of the living player.
C17_Witness_StillRunning ==
    /\ lastOp.op = "tick"
    /\ playerEntity # NoPlayer
    /\ ~entities[playerEntity].isDead
    /\ lastOp.collected = <<>>
    /\ \E i \in 1..Len(entities[playerEntity].buffs) :
          entities[playerEntity].buffs[i].endTime = lastOp.now + 10


\* The sum of the amounts of the speed buffs of a list.
RECURSIVE SpeedBonusOf(_)
SpeedBonusOf(buffs) ==
    IF buffs = <<>> THEN 0
    ELSE (IF Head(buffs).type = "speed" THEN Head(buffs).amount ELSE 0)
         + SpeedBonusOf(Tail(buffs))

\* The velocity after a frame of length delta: towards dir * 2 * speed at
\* the rate 40 / (2 * speed) per second under input, towards rest at the
\* rate 12 per second without.
VelocityAfter(v, dir, speed, delta) ==
    LET target == dir * 2 * speed
        gap == target - v
    IN IF dir # 0
         THEN v + Sign(gap) * ((Abs(gap) * Mul(4000, delta)) \div (2 * speed))
         ELSE v - Mul(v, Mul(1200, delta))

\* The player's hp after the pickups of a frame, taken in their order.
RECURSIVE HpAfterPickups(_, _, _)
HpAfterPickups(hp, maxHp, items) ==
    IF items = <<>> THEN hp
    ELSE HpAfterPickups(IF Head(items).type = "health"
                          THEN Min(maxHp, hp + Head(items).value) ELSE hp,
                        maxHp, Tail(items))

\* The place of an entity in the registry.
Place(id) == CHOOSE i \in 1..Len(order) : order[i] = id

\* What one frame shows of the order of its phases, the buff expiry
\* running first (expiryFirst) or last:
\*  - the movement of a living player counts the speed buffs that the
\*    expiry has left, or all the speed buffs held;
\*  - the enemies choose their mode by the distance to the place the
\*    movement has brought the player to;
\*  - the enemies strike in the order of the registry;
\*  - the pickups heal the hp that the strikes have left;
\*  - after the frame a living player holds no expired buff.
PhaseOrder(expiryFirst) ==
    playerEntity # NoPlayer =>
        LET p == entities[playerEntity]
            q == entities'[playerEntity]
            now == lastOp'.now
            running(b) == b.endTime > now
            bonus == IF expiryFirst THEN SpeedBonusOf(SelectSeq(p.buffs, running))
                                    ELSE SpeedBonusOf(p.buffs)
        IN /\ ~p.isDead =>
                /\ playerVelocity' = VelocityAfter(playerVelocity, inputDirection,
                                                  p.speed + bonus, lastOp'.delta)
                /\ q.position = p.position + Mul(playerVelocity', lastOp'.delta)
                /\ \A i \in 1..Len(q.buffs) : running(q.buffs[i])
           /\ \A id \in DOMAIN lastOp'.modes :
                LET d == distanceTo(entities[id].position, q.position)
                    mode == lastOp'.modes[id]
                IN /\ mode = "flee" => d < FleeRange
                   /\ mode = "chase" => d > AttackRange /\ d < ChaseRange
                   /\ mode = "attack" => d <= AttackRange
                   /\ mode = "patrol" => d >= ChaseRange
           /\ \A i, j \in 1..Len(lastOp'.hits) :
                i < j => Place(lastOp'.hits[i].by) < Place(lastOp'.hits[j].by)
           /\ q.hp = HpAfterPickups(HpAfterAttacks(p), p.maxHp, lastOp'.collected)

\* C18 as stated: in every frame the phases run in the order player
\* movement, enemies in registry order, loot update, buff expiry.
C18_PhaseOrderAsStated == [][TickStep => PhaseOrder(FALSE)]_vars

\* C18 as amended: in every frame the phases run in the order buff expiry,
\* player movement, enemies in registry order, loot update.
C18_PhaseOrder == [][TickStep => PhaseOrder(TRUE)]_vars

\* C18 witness: a frame has dropped a speed buff of the moving player, so
\* that the movement of the frame tells whether the expiry ran before it.
C18_Witness_ExpiryWhileMoving ==
    /\ lastOp.op = "tick"
    /\ lastOp.expired # <<>>
    /\ lastOp.expired[1].type = "speed"
    /\ inputDirection # 0
    /\ playerVelocity > 0
    /\ ~entities[playerEntity].isDead


\* The mode of C19 for an enemy e at distance d from the player: the first
\* match of flee, chase, attack, patrol.
ExpectedMode(e, d) ==
    IF e.hp * 100 < 30 * e.maxHp /\ d < 2000 THEN "flee"
    ELSE IF 1000 < d /\ d < 4500 THEN "chase"
    ELSE IF d <= 1000 THEN "attack"
    ELSE "patrol"

\* Enemy id is alive and outside a stagger window at the time of the frame
\* about to end.
Deciding(id) ==
    /\ entities[id].type = "enemy"
    /\ ~entities[id].isDead
    /\ entities[id].mesh
    /\ entities[id].staggerEndTime <= lastOp'.now

\* The frame about to end gives enemy id the mode of C19, the distance taken
\* from where the enemy stood to where the frame has moved the player; an
\* enemy in another mode than attack resolves no attack.
ChoosesExpectedMode(id) ==
    LET d == distanceTo(entities[id].position, entities'[playerEntity].position)
        mode == lastOp'.modes[id]
    IN /\ mode = ExpectedMode(entities[id], d)
       /\ mode # "attack" =>
            /\ id \notin lastOp'.resolved
            /\ entities'[id].lastAttackTime = entities[id].lastAttackTime
            /\ \A i \in 1..Len(lastOp'.hits) : lastOp'.hits[i].by # id

\* C19 as stated: on every frame with a player entity, every living,
\* non-staggered enemy is given exactly the mode of the first match.
C19_ModeSelectionAsStated ==
    [][ (TickStep /\ playerEntity # NoPlayer) =>
          \A id \in DOMAIN entities : Deciding(id) => ChoosesExpectedMode(id) ]_vars

\* C19 as amended: on every frame that finds the player alive, every living,
\* non-staggered enemy is given exactly the mode of the first match: flee if
\* hp/maxHp < 0.3 and dist < 20, else chase if 10 < dist < 45, else attack if
\* dist <= 10, else patrol, and an enemy that flees resolves no attack.  On a
\* frame that finds no player or a dead one, no enemy is given a mode.
C19_ModeSelection ==
    [][ TickStep =>
          \A id \in DOMAIN entities :
              Deciding(id) =>
                  IF AIRuns THEN ChoosesExpectedMode(id)
                            ELSE lastOp'.modes[id] = "none" ]_vars

\* C19 witness: a frame has made an enemy below 30% of its hp flee from
\* inside the attack range, its attack cooldown over.
C19_Witness_FleeInAttackRange ==
    /\ lastOp.op = "tick"
    /\ playerEntity # NoPlayer
    /\ \E id \in DOMAIN entities :
          /\ lastOp.modes[id] = "flee"
          /\ entities[id].hp * 100 < 30 * entities[id].maxHp
          /\ distanceTo(entities[id].position,
                        entities[playerEntity].position) <= 1000
          /\ lastOp.now - entities[id].lastAttackTime > 150


\* The number of the frame's attacks on the player made by enemy id.
RECURSIVE HitsBy(_, _)
HitsBy(id, hits) ==
    IF hits = <<>> THEN 0
    ELSE (IF Head(hits).by = id THEN 1 ELSE 0) + HitsBy(id, Tail(hits))

\* C20: in every frame, an enemy resolves an attack only when
\* now - lastAttackTime > 1.5, and, living and unstaggered within 10 of a
\* living player, resolves one whenever it is; its lastAttackTime becomes
\* now when it resolves one, landed or not, and stays as it is otherwise,
\* so that two resolutions of one enemy are more than 1.5 s apart; it
\* damages the player only when it resolves an attack, and at most once
\* in the frame.  Between the frames nothing but the making or the loading
\* of a world touches the lastAttackTime of an enemy.
C20_AttackCooldown ==
    /\ [][ (~TickStep /\ lastOp'.op \notin {"initWorld", "loadGame"}) =>
              \A id \in DOMAIN entities \cap DOMAIN entities' :
                  entities'[id].lastAttackTime = entities[id].lastAttackTime ]_vars
    /\ [][ TickStep =>
             \A id \in DOMAIN entities :
                 LET e == entities[id]
                     now == lastOp'.now
                 IN /\ id \in lastOp'.resolved =>
                         /\ e.type = "enemy"
                         /\ now - e.lastAttackTime > 150
                         /\ entities'[id].lastAttackTime = now
                    /\ id \notin lastOp'.resolved =>
                         /\ entities'[id].lastAttackTime = e.lastAttackTime
                         /\ HitsBy(id, lastOp'.hits) = 0
                    /\ (lastOp'.modes[id] = "attack" /\ now - e.lastAttackTime > 150) =>
                         id \in lastOp'.resolved
                    /\ HitsBy(id, lastOp'.hits) <= 1 ]_vars

\* C20 witness: a frame has resolved the attack of a melee enemy farther
\* than 6 from the player: the player takes no damage from it, and its
\* cooldown starts again.
C20_Witness_MeleeOutOfReach ==
    /\ lastOp.op = "tick"
    /\ playerEntity # NoPlayer
    /\ \E id \in lastOp.resolved :
          /\ ~entities[id].isRanged
          /\ ~LowerIncludesMageOrArcher(entities[id].class)
          /\ distanceTo(entities[id].position,
                        entities[playerEntity].position) > 600
          /\ HitsBy(id, lastOp.hits) = 0
          /\ entities[id].lastAttackTime = lastOp.now


\* The enemy attacks from range: the isRanged flag, or a class name that
\* holds 'mage' or 'archer' in any letter case.
Ranged(e) == e.isRanged \/ e.class \in {"Fire Mage", "ARCHER"}

\* The frame's attacks on the player made by enemy id.
HitsOf(id, hits) == SelectSeq(hits, LAMBDA h : h.by = id)

\* The attacks an enemy that resolves one makes in a frame: a ranged enemy
\* calls for raw damage power * 0.5 at any distance of the attack range, a
\* melee enemy for power * 0.8 at a distance of 6 or less and for nothing
\* between 6 and 10.
AttackCalls ==
    \A id \in lastOp'.resolved :
        LET e == entities[id]
            d == distanceTo(e.position, entities'[playerEntity].position)
        IN /\ d <= 1000
           /\ HitsOf(id, lastOp'.hits) =
                IF Ranged(e)
                  THEN << [by |-> id, amount |-> (e.power * 50) \div 100] >>
                ELSE IF d <= 600
                  THEN << [by |-> id, amount |-> (e.power * 80) \div 100] >>
                ELSE << >>

\* C21 as stated: an enemy that resolves an attack in a frame applies raw
\* damage power * 0.5 to the player when it is ranged, at any distance of
\* the attack range; a melee enemy applies power * 0.8 at a distance of 6 or
\* less and nothing between 6 and 10.  The hp of a living player after a
\* frame without pickups is what these attacks leave.
C21_AttackDamage ==
    [][ TickStep =>
          /\ AttackCalls
          /\ ( /\ playerEntity # NoPlayer
               /\ ~entities[playerEntity].isDead
               /\ lastOp'.collected = <<>> ) =>
                entities'[playerEntity].hp =
                    HpAfterHits(entities[playerEntity].hp, lastOp'.hits,
                                entities[playerEntity].defense) ]_vars

\* What does hold: the attacks are called for as C21 says, and they are
\* applied to the entity registered under the id 'player'.
C21_AttackCalls ==
    [][ TickStep =>
          /\ AttackCalls
          /\ (playerEntity # NoPlayer /\ lastOp'.collected = <<>>) =>
                entities'[playerEntity].hp = HpAfterAttacks(entities[playerEntity]) ]_vars

\* C21 witness: a frame has resolved the attack of an enemy that is ranged
\* by its flag alone, farther than 6 from the player, and the attack has
\* cost the player hp.
C21_Witness_RangedBeyondReach ==
    /\ lastOp.op = "tick"
    /\ playerEntity # NoPlayer
    /\ \E id \in lastOp.resolved :
          /\ entities[id].isRanged
          /\ distanceTo(entities[id].position,
                        entities[playerEntity].position) > 600
          /\ HitsOf(id, lastOp.hits) # <<>>
    /\ entities[playerEntity].hp < entities[playerEntity].maxHp


\* Entity id is an enemy that the forEach of updateAI does not pass over.
LivingEnemy(id) ==
    entities[id].type = "enemy" /\ ~entities[id].isDead /\ entities[id].mesh

\* The frame about to end has evaluated enemy id once: it has been given a
\* branch, and its stagger points have decayed by one step of 15 per second.
EvaluatedOnce(id) ==
    LET sp == entities[id].staggerPoints
    IN /\ lastOp'.modes[id] \in Decisions \cup {"stagger"}
       /\ entities'[id].staggerPoints =
            IF sp > 0 THEN Max(0, sp - 15 * lastOp'.delta) ELSE sp
       /\ Len(HitsOf(id, lastOp'.hits)) <= 1

\* C22 as stated: every frame evaluates each living enemy once, in the
\* order of the registry, and applies its stagger decay, whatever the state
\* of the player.
C22_EvaluationWhateverPlayer ==
    [][ TickStep =>
          /\ \A id \in DOMAIN entities : LivingEnemy(id) => EvaluatedOnce(id)
          /\ \A i, j \in 1..Len(lastOp'.hits) :
                i < j => Place(lastOp'.hits[i].by) < Place(lastOp'.hits[j].by) ]_vars

\* C22 as amended: a frame that finds the player alive evaluates each living
\* enemy once, in the order of the registry, and applies its stagger decay;
\* a frame that finds no player or a dead one evaluates no enemy and leaves
\* every enemy as it is, stagger points included.  No frame evaluates a dead
\* enemy.
C22_Evaluation ==
    [][ TickStep =>
          /\ \A id \in DOMAIN entities :
                /\ (LivingEnemy(id) /\ AIRuns) => EvaluatedOnce(id)
                /\ (entities[id].type = "enemy" /\ ~(LivingEnemy(id) /\ AIRuns)) =>
                      /\ lastOp'.modes[id] = "none"
                      /\ entities'[id] = entities[id]
          /\ \A i, j \in 1..Len(lastOp'.hits) :
                i < j => Place(lastOp'.hits[i].by) < Place(lastOp'.hits[j].by) ]_vars

\* C22 witness: a frame has evaluated two living enemies, both have struck
\* the player, and one of them has stagger points left after its decay.
C22_Witness_TwoEvaluated ==
    /\ lastOp.op = "tick"
    /\ Len(lastOp.hits) = 2
    /\ lastOp.hits[1].by # lastOp.hits[2].by
    /\ \E id \in DOMAIN entities :
          /\ lastOp.modes[id] \in Decisions
          /\ entities[id].staggerPoints > 0


\* The stagger points left of points after frames of the steps deltas with
\* no damage in between.
RECURSIVE DecayOver(_, _)
DecayOver(points, deltas) ==
    IF deltas = <<>> THEN points
    ELSE DecayOver(staggerDecay(points, Head(deltas)), Tail(deltas))

\* Frames that total 1 s: ten of 0.1 s, twenty of 0.05 s, and a mix.
SecondsOfFrames ==
    { [i \in 1..10 |-> 10],
      [i \in 1..20 |-> 5],
      [i \in 1..15 |-> IF i <= 5 THEN 10 ELSE 5] }

AtPatrolTarget(id) ==
    \/ entities[id].patrolTarget = NoTarget
    \/ Abs(entities[id].position - entities[id].patrolTarget[1]) < 150

\* C25: a frame that finds an enemy in patrol mode with waitTimer > 0 leaves
\* it where it is and takes delta off its waitTimer; the waitTimer of an
\* enemy of the registry grows in no step but a frame that finds the enemy in patrol mode with waitTimer <= 0
\* and no patrol target or one less far than 1.5, which sets it to a value
\* in [2, 5) and does not move the enemy.
C25_PatrolWait ==
    /\ [][ TickStep =>
             \A id \in DOMAIN entities :
                 LET e == entities[id]
                     f == entities'[id]
                 IN /\ (lastOp'.modes[id] = "patrol" /\ e.waitTimer > 0) =>
                          /\ f.position = e.position
                          /\ f.patrolTarget = e.patrolTarget
                          /\ f.waitTimer = e.waitTimer - lastOp'.delta
                    /\ f.waitTimer > e.waitTimer =>
                          /\ lastOp'.modes[id] = "patrol"
                          /\ e.waitTimer <= 0
                          /\ AtPatrolTarget(id)
                          /\ f.waitTimer >= 200 /\ f.waitTimer < 500
                          /\ f.position = e.position
                          /\ f.patrolTarget = e.patrolTarget ]_vars
    /\ [][ (~TickStep /\ lastOp'.op # "loadGame") =>
             \A id \in DOMAIN entities \cap DOMAIN entities' :
                 entities'[id].waitTimer <= entities[id].waitTimer ]_vars

\* C25 witness: a frame has started the wait of an enemy that stands at its
\* patrol target.
C25_Witness_WaitAtTarget ==
    /\ lastOp.op = "tick"
    /\ \E id \in DOMAIN entities :
          /\ lastOp.modes[id] = "patrol"
          /\ entities[id].patrolTarget # NoTarget
          /\ Abs(entities[id].position - entities[id].patrolTarget[1]) < 150
          /\ entities[id].waitTimer = 250

\* A frame has counted down the wait of an enemy in patrol mode.
C25_Witness_Waited ==
    /\ lastOp.op = "tick"
    /\ \E id \in DOMAIN entities :
          /\ lastOp.modes[id] = "patrol"
          /\ entities[id].waitTimer > 0
          /\ entities[id].waitTimer < 250


\* C26: the patrol target of an enemy lies within 25 of its spawn position
\* in every state, and a frame gives an enemy a new patrol target only in
\* patrol mode, wherever the enemy stands.
C26_PatrolTargetNearSpawn ==
    /\ [](\A id \in DOMAIN entities :
             entities[id].patrolTarget # NoTarget =>
                 Abs(entities[id].patrolTarget[1] - entities[id].spawnPosition) <= 2500)
    /\ [][ TickStep =>
             \A id \in DOMAIN entities :
                 entities'[id].patrolTarget # entities[id].patrolTarget =>
                     /\ lastOp'.modes[id] = "patrol"
                     /\ entities[id].waitTimer <= 0
                     /\ AtPatrolTarget(id) ]_vars

\* C26 witness: an enemy that has walked away from its spawn position holds
\* a patrol target drawn near the rim of the patrol radius.
C26_Witness_TargetDrawnAway ==
    \E id \in DOMAIN entities :
        /\ entities[id].type = "enemy"
        /\ entities[id].patrolTarget # NoTarget
        /\ entities[id].patrolTarget[1] = entities[id].spawnPosition + 2480
        /\ lastOp.op = "tick"
        /\ entities[id].position > entities[id].spawnPosition + 50
        /\ entities[id].position < entities[id].spawnPosition + 100


\* The speed updateAI moves an enemy with: stats.speed, or 8 if that is 0.
BaseSpeed(e) == IF e.speed # 0 THEN e.speed ELSE 800

\* C27: every frame integrates with a step delta in [0, 0.1], the time the
\* frame took or 0.1 if it took longer; in one frame an enemy moves by at
\* most speed * 1.4 * 0.1 and a waitTimer drops by at most 0.1.
C27_BoundedStep ==
    [][ TickStep =>
          /\ lastOp'.delta >= 0
          /\ lastOp'.delta <= 10
          /\ lastOp'.delta = Min(clock' - clock, 10)
          /\ \A id \in DOMAIN entities :
                entities[id].type = "enemy" =>
                    /\ Abs(entities'[id].position - entities[id].position)
                         <= (((BaseSpeed(entities[id]) * 140) \div 100) * 10) \div 100
                    /\ entities[id].waitTimer - entities'[id].waitTimer <= 10 ]_vars

\* C27 witness: a frame that came later than 0.1 s after the one before has
\* stepped by 0.1 s, and a fleeing enemy has moved by the full
\* speed * 1.4 * 0.1 in it.
C27_Witness_ClampedFlight ==
    /\ lastOp.op = "tick"
    /\ lastOp.delta = 10
    /\ lastOp.now >= 180
    /\ \E id \in DOMAIN entities :
          /\ lastOp.modes[id] = "flee"
          /\ entities[id].position = entities[id].spawnPosition + 140


\* The simulation state of an entity that C28 speaks of.
SimState(e) ==
    [ hp |-> e.hp, isDead |-> e.isDead, staggerPoints |-> e.staggerPoints,
      staggerEndTime |-> e.staggerEndTime, position |-> e.position,
      buffs |-> e.buffs ]

\* The step changes the simulation state of an entity that it keeps.
Changes(id) ==
    /\ id \in DOMAIN entities \cap DOMAIN entities'
    /\ SimState(entities'[id]) # SimState(entities[id])

\* The step is one of the handlers that put new entities into the registry:
\* loadGame puts in the entities of the save.
Spawns == lastOp'.op \in {"initWorld", "createHero", "loadGame"}

\* C28 as stated: but for the making of new entities, the simulation state
\* of an entity changes only in a frame.
C28_OnlyFramesChangeEntities ==
    [][ \A id \in DOMAIN entities : Changes(id) => (TickStep \/ Spawns) ]_vars

\* C28 as amended: but for the making of new entities, the simulation state
\* of an entity changes only in a frame or in executeSkill, the handler of
\* the skill buttons and keys, which damages the enemy it targets at once;
\* no other handler changes it.
C28_EntityChanges ==
    [][ \A id \in DOMAIN entities :
            Changes(id) =>
                \/ TickStep
                \/ Spawns
                \/ /\ SkillStep
                   /\ id = lastOp'.target
                   /\ entities[id].type = "enemy" ]_vars

\* C28 witness: executeSkill has just taken hp from the enemy it targets.
C28_Witness_SkillDamage ==
    /\ lastOp.op = "skill"
    /\ lastOp.target \in DOMAIN entities
    /\ entities[lastOp.target].hp < entities[lastOp.target].maxHp
    /\ inputDirection # 0


\* C24 as stated: in every state reached after a frame, the waitTimer of
\* every enemy is at least 0.
C24_WaitTimerNotNegative ==
    lastOp.op = "tick" =>
        \A id \in DOMAIN entities :
            entities[id].type = "enemy" => entities[id].waitTimer >= 0

\* What the patrol branch does keep: the last decrement of a wait takes the
\* waitTimer below 0 by less than the longest delta of a frame, and a
\* waitTimer that is not above 0 is not decremented.
C24_WaitTimerAboveMinusDelta ==
    \A id \in DOMAIN entities : entities[id].waitTimer > -MaxDelta


\* A loadGame step that did not load: there was no save, or the catch block
\* reported an unreadable save.
FailedLoad == lastOp'.op = "loadGame" /\ lastOp'.result # "loaded"

\* C29 as stated: a loadGame that fails, for want of a save, on text that
\* does not parse or on a save it cannot apply, leaves the engine's
\* registry, loot set and player reference and the App's world and player
\* as they were, and reports something other than success.
C29_FailedLoadChangesNothing ==
    [][ FailedLoad =>
          /\ entities' = entities
          /\ order' = order
          /\ lootEntities' = lootEntities
          /\ playerEntity' = playerEntity
          /\ world' = world
          /\ player' = player
          /\ lastOp'.result \in {"no save", "unreadable"} ]_vars

\* What does hold of a failed load: without a save, or on text that does not
\* parse, nothing of the registry, the loot, the player reference, the world
\* and the player changes; and every failed load reports it.
C29_UnreadLoadChangesNothing ==
    [][ (FailedLoad /\ save.kind # "data") =>
          /\ UNCHANGED <<entities, order, lootEntities, playerEntity, world, player>>
          /\ lastOp'.result \in {"no save", "unreadable"} ]_vars


\* What C30 compares of an entity: kind, position, spawnPosition, stats and
\* isDead, the mesh left aside.
Saved(e) ==
    [ type |-> e.type, position |-> e.position, spawnPosition |-> e.spawnPosition,
      hp |-> e.hp, maxHp |-> e.maxHp, speed |-> e.speed, power |-> e.power,
      defense |-> e.defense, class |-> e.class, isRanged |-> e.isRanged,
      isDead |-> e.isDead ]

\* a loadGame that loads, right after a saveGame
RoundTrip ==
    /\ lastOp.op = "saveGame"
    /\ lastOp'.op = "loadGame"
    /\ lastOp'.result = "loaded"

\* C30 as stated: saveGame followed by loadGame leaves a registry with the
\* same set of entities, each with the id, kind, position, spawnPosition,
\* stats and isDead it had.
C30_RoundTrip ==
    [][ RoundTrip =>
          /\ DOMAIN entities' = DOMAIN entities
          /\ \A id \in DOMAIN entities :
                Saved(entities'[id]) = Saved(entities[id]) ]_vars

\* What the round trip does keep: every entity that is not of type 'player'
\* comes back under its id with the data it had; the hero comes back with
\* its data under the new id, and is the only entity of type 'player'.
C30_RoundTripButHero ==
    [][ RoundTrip =>
          /\ DOMAIN entities' =
                {id \in DOMAIN entities : entities[id].type # "player"}
                  \cup {LoadedId}
          /\ \A id \in DOMAIN entities :
                entities[id].type # "player" =>
                    Saved(entities'[id]) = Saved(entities[id])
          /\ Saved(entities'[LoadedId]) = Saved(heroData)
          /\ playerEntity' = LoadedId ]_vars


\* An initWorld step made while the engine exists: its spawnEntity calls
\* reach the registry.
GeneratesEntities == lastOp'.op = "initWorld" /\ engine

\* descriptor i of the batch is in the registry under its id
Spawned(batch, i) ==
    /\ EntityIds[i] \in DOMAIN entities'
    /\ entities'[EntityIds[i]].type = batch[i].type
    /\ entities'[EntityIds[i]].position = batch[i].x

\* C31 as stated: of a batch with a malformed descriptor, that descriptor
\* alone is skipped; every well-formed descriptor, before and after it, is
\* spawned into the registry, and the flow goes on to the hero prompt.
C31_MalformedAloneSkipped ==
    [][ GeneratesEntities =>
          LET batch == lastOp'.batch
          IN /\ \A i \in 1..Len(batch) :
                  IF batch[i].voxels THEN Spawned(batch, i)
                  ELSE EntityIds[i] \notin DOMAIN entities'
             /\ gameState' = "CHARACTER_GEN" ]_vars

\* What does hold: the descriptors before the first malformed one are
\* spawned, that one and all after it are not, and the flow goes on.
C31_BatchCutAtMalformed ==
    [][ GeneratesEntities =>
          LET batch == lastOp'.batch
              sound(i) == \A j \in 1..i : batch[j].voxels
          IN /\ \A i \in 1..Len(batch) :
                  IF sound(i) THEN Spawned(batch, i)
                  ELSE EntityIds[i] \notin DOMAIN entities'
             /\ gameState' = "CHARACTER_GEN" ]_vars


\* Entities handed to spawnEntity: a hero and an enemy without
\* spawnPosition, and an enemy that brings one.
SpawnSamples ==
    { NewEntity("player", 0, 500, HeroSpeed, 1000, HeroDefense, "Hero", FALSE,
                HeroSkills),
      NewEntity("enemy", 300, 2000, EntitySpeed, 10000, 0, "Fire Mage", FALSE, <<>>),
      toSaved(SavedMage) }

\* What C32 says of spawnEntity(id, data) on the registry reg.
SpawnsAsSaid(reg, id, data) ==
    LET r == spawnEntity(reg, id, data)
        all == [i \in 1..Len(r.order) |-> r.ents[r.order[i]]]
    IN /\ id \in DOMAIN r.ents
       /\ \E i \in 1..Len(all) : r.order[i] = id /\ all[i] = r.ents[id]
       /\ r.order = IF id \in DOMAIN reg.ents THEN reg.order
                    ELSE Append(reg.order, id)
       /\ \A k \in DOMAIN reg.ents \ {id} : r.ents[k] = reg.ents[k]
       /\ r.ents[id].spawnPosition =
             IF data.spawnPosition = NoPosition THEN data.position
             ELSE data.spawnPosition
       /\ [r.ents[id] EXCEPT !.spawnPosition = 0, !.mesh = TRUE]
             = [data EXCEPT !.spawnPosition = 0, !.mesh = TRUE]
       /\ r.playerEntity = IF data.type = "player" THEN id ELSE reg.playerEntity

\* C32: spawnEntity registers the entity under its id, so that
\* getAllEntities returns it, in insertion order; it sets spawnPosition to
\* the position only when the entity brings none and keeps one it brings;
\* an entity of type 'player' becomes the player reference.  So in every
\* registry reached, and so for the entities that createHero and loadGame
\* hand to it.
C32_SpawnEntity ==
    /\ [](\A id \in {"player", "new"}, data \in SpawnSamples :
            SpawnsAsSaid([ents |-> entities, order |-> order,
                          playerEntity |-> playerEntity], id, data))
    /\ [][ lastOp'.op = "createHero" =>
              /\ order' = IF "player" \in DOMAIN entities THEN order
                          ELSE Append(order, "player")
              /\ getAllEntities'[CHOOSE i \in 1..Len(order') : order'[i] = "player"]
                    = entities'["player"]
              /\ entities'["player"].spawnPosition = entities'["player"].position
              /\ playerEntity' = "player" ]_vars
    /\ [][ (lastOp'.op = "loadGame" /\ lastOp'.result = "loaded" /\ engine) =>
              /\ order'[1] = LoadedId
              /\ playerEntity' = LoadedId
              /\ \A i \in 1..Len(save.entities) :
                    /\ order'[i + 1] = save.entities[i].id
                    /\ entities'[order'[i + 1]].spawnPosition
                          = save.entities[i].data.spawnPosition ]_vars

\* C32 witness: loadGame has spawned the hero, which became the player
\* reference, and an enemy that kept the spawnPosition it brought, away
\* from its position.
C32_Witness_KeptSpawnPosition ==
    /\ lastOp.op = "loadGame"
    /\ playerEntity = LoadedId
    /\ order = <<LoadedId, "s1", "s2">>
    /\ entities["s1"].spawnPosition = 5000
    /\ entities["s1"].position = 6000


\* getNearestHostile never returns a dead entity, whatever the range.
NearestIsAlive ==
    \A range \in {2000, 4000} :
        getNearestHostile(range) # "none" =>
            ~entities[getNearestHostile(range)].isDead

\* A loadGame step in an engine, whose clearEntities empties the registry.
ClearsEntities ==
    lastOp'.op = "loadGame" /\ lastOp'.result # "no save" /\ save.kind = "data" /\ engine

\* C33 as stated: an entity removed by death processing or by clearEntities
\* is no longer returned by getAllEntities or by getNearestHostile, and no
\* later frame visits it.
C33_RemovedIsGone ==
    /\ [](\A i \in 1..Len(getAllEntities) : ~getAllEntities[i].isDead)
    /\ []NearestIsAlive
    /\ [][ TickStep =>
              \A id \in DOMAIN entities :
                  entities[id].isDead => entities'[id] = entities[id] ]_vars
    /\ [][ ClearsEntities =>
              /\ entities' = loadRegistry(save).ents
              /\ lootEntities' = <<>> ]_vars

\* What does hold: a dead entity stays in the registry and getAllEntities
\* returns it, but getNearestHostile never does, and no frame changes a dead
\* enemy or NPC or has it decide or attack; after clearEntities the registry
\* holds the entities of the save and nothing else.
C33_RemovedIsSkipped ==
    /\ []NearestIsAlive
    /\ [][ TickStep =>
              \A id \in DOMAIN entities :
                  (entities[id].isDead /\ entities[id].type # "player") =>
                      /\ entities'[id] = entities[id]
                      /\ lastOp'.modes[id] = "none"
                      /\ id \notin lastOp'.resolved ]_vars
    /\ [][ ClearsEntities =>
              /\ entities' = loadRegistry(save).ents
              /\ lootEntities' = <<>> ]_vars


\* The engine state of a frame of dt after the player block of animate.
FrameStart(dt) ==
    LET moves == /\ playerEntity # NoPlayer
                 /\ entities[playerEntity].mesh
                 /\ ~entities[playerEntity].isDead
        moved == updatePlayer(entities[playerEntity], frameDelta(dt), clock + dt)
    IN [ ents |-> IF moves THEN [entities EXCEPT ![playerEntity] = moved.entity]
                  ELSE entities,
         loot |-> lootEntities, staggered |-> {},
         modes |-> [id \in DOMAIN entities |-> "none"],
         hits |-> <<>>, resolved |-> {}, collected |-> <<>> ]

\* The registry and the loot a frame of dt leaves when the patrol decisions
\* of the frame are drawn as rolls.
FrameOutcome(dt, rolls) ==
    LET now == clock + dt
        delta == frameDelta(dt)
        st2 == updateLoot(updateAI(FrameStart(dt), delta, now, rolls), now)
    IN [ents |-> st2.ents, loot |-> st2.loot]

\* The registry and the loot a hit of the given amount on target leaves when
\* the loot draws of the hit come out as roll.
HitOutcome(target, amount, roll) ==
    LET st == damageEntity([ents |-> entities, loot |-> lootEntities,
                            staggered |-> {}],
                           target, amount, clock, roll)
    IN [ents |-> st.ents, loot |-> st.loot]

\* C34 as stated: the random source is a parameter of the simulation, so
\* that the state, the inputs and the deltas fix the loot-drop rolls, the
\* loot-item choices and the patrol choices: from one state, the same frame
\* and the same hit lead to one state only.  The engine holds no seed; its
\* draws are calls of Math.random().
C34_DrawsFixedByState ==
    /\ \A dt \in FrameTimes :
          \A r1, r2 \in [patrolDraws(FrameStart(dt).ents, clock + dt) -> PatrolRolls] :
              FrameOutcome(dt, r1) = FrameOutcome(dt, r2)
    /\ \A target \in DOMAIN entities :
          \A r1, r2 \in DropRolls :
              HitOutcome(target, 4000, r1) = HitOutcome(target, 4000, r2)


\* The sum of the amounts of the buffs of one kind that are active at now.
RECURSIVE ActiveBonus(_, _, _)
ActiveBonus(buffs, kind, now) ==
    IF buffs = <<>> THEN 0
    ELSE (IF Head(buffs).type = kind /\ Head(buffs).endTime > now
            THEN Head(buffs).amount ELSE 0)
         + ActiveBonus(Tail(buffs), kind, now)

\* A frame moves a living player at its base speed plus the sum of its
\* active speed buffs.
SpeedBuffsCount ==
    (playerEntity # NoPlayer /\ ~entities[playerEntity].isDead) =>
        LET p == entities[playerEntity]
        IN playerVelocity' =
              VelocityAfter(playerVelocity, inputDirection,
                            p.speed + ActiveBonus(p.buffs, "speed", lastOp'.now),
                            lastOp'.delta)

\* The defense that mitigates the attacks of a frame on the living player
\* registered as 'player', in a frame without pickups, is its defense plus
\* bonus(p).
DefenseInMitigation(bonus(_)) ==
    ( /\ playerEntity = "player"
      /\ ~entities[playerEntity].isDead
      /\ lastOp'.collected = <<>> ) =>
        LET p == entities[playerEntity]
        IN entities'[playerEntity].hp =
              HpAfterHits(p.hp, lastOp'.hits, p.defense + bonus(p))

\* The damage a skill cast calls for is the damage of one of the hero's
\* skills plus bonus(hero).
PowerInSkill(bonus(_)) ==
    \E index \in 1..Len(heroData.skills) :
        lastOp'.amount = heroData.skills[index].damage + bonus(heroData)

\* C35 as stated: while a buff is active on the player, the stat it names
\* is raised by its amount wherever the simulation uses the stat: the sum
\* of the active speed buffs is added to the base speed in the movement,
\* the sum of the active defense buffs to the defense in the mitigation of
\* damageEntity, the sum of the active power buffs to the power of a skill.
C35_BuffsRaiseStats ==
    /\ [][ TickStep =>
              /\ SpeedBuffsCount
              /\ DefenseInMitigation(
                     LAMBDA p : ActiveBonus(p.buffs, "defense", lastOp'.now)) ]_vars
    /\ [][ SkillStep =>
              PowerInSkill(LAMBDA h : ActiveBonus(h.buffs, "power", lastOp'.now)) ]_vars

\* What does hold: the speed buffs count in full; the defense buffs count
\* for nothing in the mitigation; a skill adds half the sum of the power
\* buffs the hero holds, expired since the last frame or not.
C35_BuffsAsCoded ==
    /\ [][ TickStep =>
              /\ SpeedBuffsCount
              /\ DefenseInMitigation(LAMBDA p : 0) ]_vars
    /\ [][ SkillStep =>
              PowerInSkill(LAMBDA h : ActiveBonus(h.buffs, "power", -1) \div 2) ]_vars

\* The case C35 fails in: a frame in which an enemy struck a living player
\* that holds an active defense buff.
C35_StruckUnderDefenseBuff ==
    /\ lastOp.op = "tick"
    /\ lastOp.hits # <<>>
    /\ playerEntity = "player"
    /\ ~entities[playerEntity].isDead
    /\ ActiveBonus(entities[playerEntity].buffs, "defense", clock) > 0


\* C36 as stated: whenever an enemy resolves an attack that deals damage in
\* a frame, the entity hit is the engine's player reference, whatever id it
\* was spawned under, and its hp drops by the effective damage.
C36_AttacksHitThePlayer ==
    [][ (TickStep /\ lastOp'.hits # <<>>) =>
          /\ playerEntity # NoPlayer
          /\ LET p == entities[playerEntity]
                 first == lastOp'.hits[1].amount
             IN /\ entities'[playerEntity].hp
                      <= p.hp - EffectiveDamage(first, p.defense, FALSE)
                         + (IF lastOp'.collected = <<>> THEN 0 ELSE p.maxHp)
                /\ \A id \in DOMAIN entities \ {playerEntity} :
                      entities'[id].hp = entities[id].hp ]_vars

\* What does hold: the attacks of a frame are made on the entity registered
\* under the id 'player' and on no other; a player reference registered
\* under another id loses no hp.
C36_AttacksHitTheIdPlayer ==
    [][ (TickStep /\ lastOp'.hits # <<>>) =>
          \A id \in DOMAIN entities :
              entities'[id].hp < entities[id].hp => id = "player" ]_vars


\* the batch has no malformed descriptor
WellFormed(batch) == \A i \in 1..Len(batch) : batch[i].voxels

\* C37 as stated: whenever the App reaches PLAYING, through the wizard, the
\* making of the world and of the hero, or through a loadGame started from
\* the wizard, the engine exists and its registry holds the player and
\* every entity the flow spawned, generated or saved: no spawnEntity call of
\* the flow is dropped for want of an engine.
C37_NothingDropped ==
    /\ [](gameState = "PLAYING" =>
            /\ engine
            /\ player \in DOMAIN entities
            /\ playerEntity = player)
    /\ [][ (lastOp'.op = "initWorld" /\ WellFormed(lastOp'.batch)) =>
              \A i \in 1..Len(lastOp'.batch) : Spawned(lastOp'.batch, i) ]_vars
    /\ [][ lastOp'.op = "createHero" =>
              "player" \in DOMAIN entities' /\ playerEntity' = "player" ]_vars
    /\ [][ (lastOp'.op = "loadGame" /\ lastOp'.result = "loaded"
                                    /\ gameState = "WIZARD") =>
              /\ entities' = loadRegistry(save).ents
              /\ playerEntity' = LoadedId ]_vars

\* What does hold: the calls made while the engine exists are not dropped,
\* and the engine exists from the first change of gameState on; the calls of
\* the first initWorld and of a loadGame made before it are all dropped.
C37_DroppedWithoutEngine ==
    /\ [](gameState # "WIZARD" => engine)
    /\ [][ (lastOp'.op = "initWorld" /\ WellFormed(lastOp'.batch)) =>
              IF engine
                THEN \A i \in 1..Len(lastOp'.batch) : Spawned(lastOp'.batch, i)
                ELSE entities' = entities /\ entities = <<>> ]_vars
    /\ [][ lastOp'.op = "createHero" =>
              "player" \in DOMAIN entities' /\ playerEntity' = "player" ]_vars
    /\ [][ (lastOp'.op = "loadGame" /\ lastOp'.result = "loaded") =>
              IF engine
                THEN entities' = loadRegistry(save).ents /\ playerEntity' = LoadedId
                ELSE entities' = <<>> /\ playerEntity' = NoPlayer ]_vars

\* The case of a load before the engine exists: the App plays with a hero
\* that no registry holds.
C37_PlayingWithoutPlayer ==
    /\ gameState = "PLAYING"
    /\ lastOp.op = "loadGame"
    /\ player = LoadedId
    /\ entities = <<>>
    /\ playerEntity = NoPlayer


\* a frame that starts with a dead player entity
DeadPlayerTick ==
    /\ TickStep
    /\ playerEntity # NoPlayer
    /\ entities[playerEntity].isDead

\* C38 as stated: while the player is dead no tick changes the player's hp,
\* buff list or position, and no loot entity is collected.
C38_DeadPlayerUntouched ==
    [][ DeadPlayerTick =>
          /\ entities'[playerEntity].hp = entities[playerEntity].hp
          /\ entities'[playerEntity].buffs = entities[playerEntity].buffs
          /\ entities'[playerEntity].position = entities[playerEntity].position
          /\ lastOp'.collected = <<>> ]_vars

\* What does hold: a dead player neither moves nor loses a buff to expiry
\* nor is hit, and its hp and buffs change only through the loot the frame
\* collects for it.
C38_DeadPlayerOnlyLoots ==
    [][ DeadPlayerTick =>
          /\ entities'[playerEntity].position = entities[playerEntity].position
          /\ lastOp'.expired = <<>>
          /\ lastOp'.hits = <<>>
          /\ entities'[playerEntity].hp >= entities[playerEntity].hp
          /\ lastOp'.collected = <<>> =>
                /\ entities'[playerEntity].hp = entities[playerEntity].hp
                /\ entities'[playerEntity].buffs = entities[playerEntity].buffs ]_vars


\* the staggered test: the stagger window of e is open at time now
InStagger(e, now) == e.staggerEndTime > now

\* C39: the hit that starts a stagger is dealt at multiplier 1.0 and opens
\* the window of 2 seconds; the multiplier 1.5 applies only to the calls
\* made on an enemy whose window, opened by an earlier call, is still open
\* (staggerEndTime > now); and the frame suppresses the AI of an enemy by
\* the same test at the frame's time.
C39_StaggerMultiplier ==
    [][ /\ \A t \in DOMAIN entities :
              SkillHits(t) =>
                LET e == entities[t]
                    now == lastOp'.now
                    drop == e.hp - entities'[t].hp
                    plain == EffectiveDamage(lastOp'.amount, e.defense, FALSE)
                    raised == EffectiveDamage(lastOp'.amount, e.defense, TRUE)
                IN /\ drop = IF InStagger(e, now) THEN raised ELSE plain
                   /\ t \in lastOp'.staggered =>
                         /\ ~InStagger(e, now)
                         /\ drop = plain
                         /\ entities'[t].staggerEndTime = now + StunDuration
                   /\ InStagger(e, now) =>
                         /\ t \notin lastOp'.staggered
                         /\ entities'[t].staggerEndTime = e.staggerEndTime
        /\ TickStep =>
              \A id \in DOMAIN entities :
                  lastOp'.modes[id] # "none" =>
                      (lastOp'.modes[id] = "stagger"
                          <=> InStagger(entities[id], lastOp'.now)) ]_vars

\* C39 witness: a skill has just started the stagger of an enemy that
\* survived it, with an amount that the two multipliers tell apart, and
\* the hit took the plain damage off it.
C39_Witness_TriggerHit ==
    /\ lastOp.op = "skill"
    /\ lastOp.target \in DOMAIN entities
    /\ lastOp.target \in lastOp.staggered
    /\ ~entities[lastOp.target].isDead
    /\ entities[lastOp.target].staggerEndTime = lastOp.now + StunDuration
    /\ EffectiveDamage(lastOp.amount, entities[lastOp.target].defense, TRUE)
         # EffectiveDamage(lastOp.amount, entities[lastOp.target].defense, FALSE)

====
